---- MODULE Spec2Model ----
(***************************************************************************)
(* Model of the agent-service protocol runtime (sessions, prompt runs,     *)
(* their asyncio tasks, cancellation, persistence and reload), of the      *)
(* agent task loop that a run executes and of the workspace tool executor  *)
(* the loop calls.                                                         *)
(*                                                                         *)
(* A run's asyncio task is modelled by its position: "pending" (created,   *)
(* first step not yet taken), one value per await at which the coroutine   *)
(* can be suspended, "done" (returned) and "cancelled" (left by an         *)
(* uncaught CancelledError).  Task.cancel() is the flag must_cancel: the   *)
(* next step of the task raises CancelledError at the await it is          *)
(* suspended on.                                                           *)
(***************************************************************************)
EXTENDS Integers, Sequences, FiniteSets, TLC

VARIABLES
    sessions,       \* AgentProtocolRuntime._sessions
    runs,           \* AgentProtocolRuntime._runs (PromptRunState without the task)
    task,           \* PromptRunState.task: position of the run's coroutine
    must_cancel,    \* Task.cancel() requested and CancelledError not yet raised
    loc,            \* locals of run_agent_task / _fallback_agent_to_message
    streamQ,        \* PromptRunState._stream_event_tasks not yet started
    streamBusy,     \* some stream event task is suspended inside the sink
    sinkLog,        \* what the run's on_event sink has received, in order
    files,          \* the project root on disk
    toolLog,        \* per run, the tool calls _execute_tool_call has handled
    persisted,      \* blob last given to SessionStore.save_protocol_state
    waiter,         \* one wait_run caller
    resp,           \* the answer of the API call made by the last step, if any
    cancel_accepted,\* runs for which cancel_run has returned cancelled=true
    restarts,       \* number of process restarts so far
    pin,            \* input and outcome of the policy-resolution specification
    store,          \* AgentProtocolRuntime._store is not None
    sinkRaised      \* <<run, n>>: the sink raised on the n-th event it received

vars == <<sessions, runs, task, must_cancel, loc, streamQ, streamBusy, sinkLog,
          files, toolLog, persisted, waiter, resp, cancel_accepted, restarts, pin,
          store, sinkRaised>>

\* ------------------------------------------------------------------ bounds
MaxSessions == 1
MaxRuns == 2
MaxToolCalls == 1
MaxVerify == 1
MaxRestarts == 1
MaxFallbackReplies == 1

\* ------------------------------------------------------- program constants
AGENT_MAX_STEPS == 8
FALLBACK_REPAIR_ATTEMPTS == 6
RUN_RETENTION_LIMIT == 256

SessionIds == 1..MaxSessions
RunIds == 1..MaxRuns
NoRun == 0

Terminal == {"completed", "failed", "cancelled", "interrupted"}

MUTATING_TOOLS == {"write_file", "replace_in_file", "append_to_file", "delete_file"}
MUTATING_TOOL_NAMES == {"write_file", "replace_in_file", "delete_file"}

\* the values a JSON field of a policy can hold, tagged with their Python type
Missing == [t |-> "missing"]
List(items) == [t |-> "list", v |-> items]
Bool(b) == [t |-> "bool", v |-> b]
Str(x) == [t |-> "str", v |-> x]

\* --------------------------------------------------------- tool policy
\* str.strip() on the strings the model draws names from
Strip(x) ==
    CASE x = " delete_file " -> "delete_file"
      [] x = "   " -> ""
      [] OTHER -> x

\* str.strip().lower() on the strings the model draws default decisions from
StripLower(x) ==
    CASE x = " Deny " -> "deny"
      [] x = "DENY" -> "deny"
      [] x = "Approve" -> "approve"
      [] OTHER -> x

\* bool(value) of a field read with the default False
Truthy(value) ==
    CASE value.t = "missing" -> FALSE
      [] value.t = "bool" -> value.v
      [] value.t = "str" -> value.v # ""
      [] value.t = "list" -> value.v # {}

\* _normalize_string_list: a non-list gives [], items are stripped, empty ones dropped
_normalize_string_list(value) ==
    IF value.t # "list" THEN {} ELSE {Strip(x) : x \in value.v} \ {""}

\* str(value or "approve").strip().lower(), then anything but approve/deny is approve
normalize_default_decision(value) ==
    IF value.t = "str" /\ StripLower(value.v) \in {"approve", "deny"}
    THEN StripLower(value.v)
    ELSE "approve"

\* dict(metadata_policy) then base.update(override): a key of override wins
MergeField(base, over) == IF over = Missing THEN base ELSE over

_resolve_tool_policy(metadata_policy, override) ==
    LET base == [allow_tools |-> MergeField(metadata_policy.allow_tools, override.allow_tools),
                 deny_tools |-> MergeField(metadata_policy.deny_tools, override.deny_tools),
                 deny_mutations |-> MergeField(metadata_policy.deny_mutations, override.deny_mutations),
                 default_decision |-> MergeField(metadata_policy.default_decision, override.default_decision)]
    IN  [allow_tools |-> List(_normalize_string_list(base.allow_tools)),
         deny_tools |-> List(_normalize_string_list(base.deny_tools)),
         deny_mutations |-> Bool(Truthy(base.deny_mutations)),
         default_decision |-> Str(normalize_default_decision(base.default_decision))]

\* a decision that lets the allow list approve before the deny list is read
_decide_tool_policy_allow_first(policy, tool_name) ==
    LET clean_name == Strip(tool_name)
        allow_tools == _normalize_string_list(policy.allow_tools)
        deny_tools == _normalize_string_list(policy.deny_tools)
        deny_mutations == Truthy(policy.deny_mutations)
        default_decision == normalize_default_decision(policy.default_decision)
    IN  IF clean_name \in allow_tools
          THEN [decision |-> "approve", source |-> "policy.allow_tools"]
        ELSE IF clean_name \in deny_tools
          THEN [decision |-> "deny", source |-> "policy.deny_tools"]
        ELSE IF deny_mutations /\ clean_name \in MUTATING_TOOLS
          THEN [decision |-> "deny", source |-> "policy.deny_mutations"]
        ELSE IF allow_tools # {}
          THEN [decision |-> "deny", source |-> "policy.allow_tools"]
        ELSE IF default_decision = "deny"
          THEN [decision |-> "deny", source |-> "policy.default_decision"]
        ELSE [decision |-> "approve", source |-> "policy.default"]

_decide_tool_policy(policy, tool_name) ==
    LET clean_name == Strip(tool_name)
        allow_tools == _normalize_string_list(policy.allow_tools)
        deny_tools == _normalize_string_list(policy.deny_tools)
        deny_mutations == Truthy(policy.deny_mutations)
        default_decision == normalize_default_decision(policy.default_decision)
    IN  IF clean_name \in deny_tools
          THEN [decision |-> "deny", source |-> "policy.deny_tools"]
        ELSE IF deny_mutations /\ clean_name \in MUTATING_TOOLS
          THEN [decision |-> "deny", source |-> "policy.deny_mutations"]
        ELSE IF allow_tools # {} /\ clean_name \notin allow_tools
          THEN [decision |-> "deny", source |-> "policy.allow_tools"]
        ELSE IF default_decision = "deny"
          THEN [decision |-> "deny", source |-> "policy.default_decision"]
        ELSE [decision |-> "approve", source |-> "policy.default"]

NoPolicy ==
    [allow_tools |-> Missing, deny_tools |-> Missing,
     deny_mutations |-> Missing, default_decision |-> Missing]

\* ------------------------------------------------- workspace tool executor
\* A text (a path, a content, a search string) is a sequence of characters, a
\* path a sequence of segments; SP, CR and LF are the whitespace str.strip()
\* removes.
Whitespace == {"SP", "CR", "LF"}

RECURSIVE LStrip(_)
LStrip(s) == IF s # <<>> /\ Head(s) \in Whitespace THEN LStrip(Tail(s)) ELSE s

RECURSIVE RStrip(_)
RStrip(s) ==
    IF s # <<>> /\ s[Len(s)] \in Whitespace THEN RStrip(SubSeq(s, 1, Len(s) - 1)) ELSE s

\* str.strip() of a text
StripText(s) == RStrip(LStrip(s))

\* str(value or "").strip(), empty when the argument is missing or blank
_required_str(value) == StripText(value)

\* _as_str: the stripped text, or the default when it is missing or blank
_as_str(value, default) == IF StripText(value) = <<>> THEN default ELSE StripText(value)

\* _required_replace: the replacement as it is given, not stripped
_required_replace(value) == value.v

IsPrefix(a, b) == Len(a) <= Len(b) /\ SubSeq(b, 1, Len(a)) = a

\* Path.read_text(): universal newlines turn CR LF and a lone CR into LF
RECURSIVE read_text(_)
read_text(bytes) ==
    IF bytes = <<>> THEN <<>>
    ELSE IF Head(bytes) = "CR"
      THEN <<"LF">> \o read_text(IF Len(bytes) >= 2 /\ bytes[2] = "LF"
                                  THEN Tail(Tail(bytes)) ELSE Tail(bytes))
    ELSE <<Head(bytes)>> \o read_text(Tail(bytes))

\* Path.write_text() where os.linesep is LF: the characters are written as they are
write_text(text) == text

\* does the text hold the snippet, and where first
FirstAt(text, find) ==
    LET hits == {i \in 1..(Len(text) - Len(find) + 1) : SubSeq(text, i, i + Len(find) - 1) = find}
    IN  IF hits = {} THEN 0 ELSE CHOOSE i \in hits : \A j \in hits : i <= j

\* str.count(find): the non-overlapping occurrences, left to right
RECURSIVE CountOf(_, _)
CountOf(text, find) ==
    LET i == FirstAt(text, find)
    IN  IF i = 0 THEN 0 ELSE 1 + CountOf(SubSeq(text, i + Len(find), Len(text)), find)

\* str.replace(find, replace, count) for count >= 1
RECURSIVE ReplaceIn(_, _, _, _)
ReplaceIn(text, find, replace, count) ==
    LET i == FirstAt(text, find)
    IN  IF i = 0 \/ count = 0 THEN text
        ELSE SubSeq(text, 1, i - 1) \o replace
             \o ReplaceIn(SubSeq(text, i + Len(find), Len(text)), find, replace, count - 1)

\* the file system: absolute locations, the project root and what lies outside it
project_root == <<"root">>
APy == <<"root", "a.py">>
SubDir == <<"root", "sub">>
SubBPy == <<"root", "sub", "b.py">>
Outside == <<"out.txt">>
Paths == {APy, SubDir, SubBPy, Outside}

NoFile == [kind |-> "absent", bytes |-> <<>>]
Directory == [kind |-> "dir", bytes |-> <<>>]
File(bytes) == [kind |-> "file", bytes |-> bytes]

\* what a location holds: the root and the directories above it always exist
Entry(fs, file_path) ==
    IF file_path \in DOMAIN fs THEN fs[file_path]
    ELSE IF IsPrefix(file_path, project_root) THEN Directory
    ELSE NoFile

exists(fs, file_path) == Entry(fs, file_path).kind # "absent"
is_file(fs, file_path) == Entry(fs, file_path).kind = "file"

Put(fs, file_path, entry) == IF file_path \in DOMAIN fs THEN [fs EXCEPT ![file_path] = entry] ELSE fs

\* the directories between the project root and a location
Parents(file_path) == {SubSeq(file_path, 1, n) : n \in (Len(project_root) + 1)..(Len(file_path) - 1)}

\* the name of the file without the directories it lies in
Relative_name_only(file_path) ==
    IF file_path = <<>> THEN <<>> ELSE <<file_path[Len(file_path)]>>

\* Path.relative_to(project_root)
Relative(file_path) == SubSeq(file_path, Len(project_root) + 1, Len(file_path))

\* Path.resolve() of project_root / clean: an absolute path replaces the root,
\* "." is dropped, ".." leaves the directory
RECURSIVE Normalize(_, _)
Normalize(acc, segs) ==
    IF segs = <<>> THEN acc
    ELSE LET h == Head(segs)
             next == IF h = "." THEN acc
                     ELSE IF h = ".." THEN SubSeq(acc, 1, Len(acc) - 1)
                     ELSE Append(acc, h)
         IN  Normalize(next, Tail(segs))

Resolve(clean) ==
    IF clean # <<>> /\ Head(clean) = "/" THEN Normalize(<<>>, Tail(clean))
    ELSE Normalize(project_root, clean)

\* a resolution that does not compare the candidate with the project root
_resolve_path_unchecked(raw_path) ==
    LET clean == IF StripText(raw_path) = <<>> THEN <<".">> ELSE StripText(raw_path)
    IN  [ok |-> TRUE, path |-> Resolve(clean)]

\* WorkspaceTools._resolve_path: ok is false when the path escapes the root
_resolve_path(raw_path) ==
    LET clean == IF StripText(raw_path) = <<>> THEN <<".">> ELSE StripText(raw_path)
        candidate == Resolve(clean)
    IN  [ok |-> IsPrefix(project_root, candidate), path |-> candidate]

\* the arguments of a tool call; a missing text argument is the empty text
NoArgs ==
    [name |-> "", path |-> <<>>, content |-> <<>>, allow_overwrite |-> FALSE,
     find |-> <<>>, replace |-> Missing, count |-> 0]

ReadCall == [NoArgs EXCEPT !.name = "read_file", !.path = <<"a.py">>]
WriteCall == [NoArgs EXCEPT !.name = "write_file", !.path = <<"a.py">>, !.content = <<"x">>]
DeleteCall == [NoArgs EXCEPT !.name = "delete_file", !.path = <<"a.py">>]
ToolCalls == {ReadCall, WriteCall, DeleteCall}

\* the outcome of a tool: raised names the exception, accessed the locations
\* the tool looked at or wrote
Raise(fs, raised, error, accessed) ==
    [ok |-> FALSE, raised |-> raised, error |-> error, fs |-> fs, changed |-> FALSE,
     applied |-> FALSE, previewed |-> FALSE, path |-> <<>>, apply_args |-> NoArgs,
     accessed |-> accessed]

ToolError(fs, error, accessed) == Raise(fs, "WorkspaceToolError", error, accessed)

Return(fs, file_path, changed, applied, previewed, apply_args, accessed) ==
    [ok |-> TRUE, raised |-> "none", error |-> "", fs |-> fs, changed |-> changed,
     applied |-> applied, previewed |-> previewed, path |-> Relative(file_path),
     apply_args |-> apply_args, accessed |-> accessed]

\* the files _iter_files yields below a base path
Below(fs, base) == {file_path \in DOMAIN fs : IsPrefix(base, file_path)}

list_files(fs, path) ==
    LET r == _resolve_path(path)
    IN  IF ~r.ok THEN ToolError(fs, "Path escapes project root", {})
        ELSE IF ~exists(fs, r.path) THEN ToolError(fs, "Path does not exist", {r.path})
        ELSE Return(fs, r.path, FALSE, FALSE, FALSE, NoArgs, {r.path} \cup Below(fs, r.path))

search_in_files(fs, query, path) ==
    LET r == _resolve_path(path)
    IN  IF ~r.ok THEN ToolError(fs, "Path escapes project root", {})
        ELSE IF ~exists(fs, r.path) THEN ToolError(fs, "Path does not exist", {r.path})
        ELSE Return(fs, r.path, FALSE, FALSE, FALSE, NoArgs, {r.path} \cup Below(fs, r.path))

read_file(fs, path) ==
    LET r == _resolve_path(path)
    IN  IF ~r.ok THEN ToolError(fs, "Path escapes project root", {})
        ELSE IF ~is_file(fs, r.path) THEN ToolError(fs, "File not found", {r.path})
        ELSE Return(fs, r.path, FALSE, FALSE, FALSE, NoArgs, {r.path})

write_file(fs, path, content, allow_overwrite) ==
    LET r == _resolve_path(path)
        file_path == r.path
        existed == exists(fs, file_path)
        before == read_text(Entry(fs, file_path).bytes)
    IN  IF ~r.ok THEN ToolError(fs, "Path escapes project root", {})
        ELSE IF existed /\ ~is_file(fs, file_path)
          THEN ToolError(fs, "Path is not a file", {file_path})
        ELSE IF existed /\ before # <<>> /\ before # content /\ ~allow_overwrite
          THEN ToolError(fs, "Refusing full overwrite of existing non-empty file", {file_path})
        ELSE IF \E p \in Parents(file_path) : is_file(fs, p)
          THEN Raise(fs, "OSError", "File exists", {file_path} \cup Parents(file_path))
        ELSE Return([l \in DOMAIN fs |->
                        IF l = file_path THEN File(write_text(content))
                        ELSE IF l \in Parents(file_path) THEN Directory
                        ELSE fs[l]],
                    file_path, TRUE, TRUE, FALSE, NoArgs, {file_path} \cup Parents(file_path))

replace_in_file(fs, path, find, replace, count) ==
    LET r == _resolve_path(path)
        file_path == r.path
        original == read_text(Entry(fs, file_path).bytes)
        occurrences == CountOf(original, find)
        updated == ReplaceIn(original, find, replace, IF count = 0 THEN occurrences ELSE count)
    IN  IF find = <<>> THEN ToolError(fs, "find must not be empty", {})
        ELSE IF ~r.ok THEN ToolError(fs, "Path escapes project root", {})
        ELSE IF ~is_file(fs, file_path) THEN ToolError(fs, "File not found", {file_path})
        ELSE IF occurrences = 0 THEN Return(fs, file_path, FALSE, FALSE, FALSE, NoArgs, {file_path})
        ELSE Return(Put(fs, file_path, File(write_text(updated))), file_path, TRUE, TRUE, FALSE,
                    NoArgs, {file_path})

delete_file(fs, path) ==
    LET r == _resolve_path(path)
        file_path == r.path
    IN  IF ~r.ok THEN ToolError(fs, "Path escapes project root", {})
        ELSE IF ~is_file(fs, file_path) THEN ToolError(fs, "File not found", {file_path})
        ELSE Return(Put(fs, file_path, NoFile), file_path, TRUE, TRUE, FALSE, NoArgs, {file_path})

\* a preview that writes the file it describes
preview_write_file_writing(fs, path, content, allow_overwrite) ==
    LET res == write_file(fs, path, content, allow_overwrite)
    IN  [res EXCEPT !.applied = FALSE, !.previewed = res.ok]

preview_write_file(fs, path, content, allow_overwrite) ==
    LET r == _resolve_path(path)
        file_path == r.path
        existed == exists(fs, file_path)
        before == IF existed THEN read_text(Entry(fs, file_path).bytes) ELSE <<>>
    IN  IF ~r.ok THEN ToolError(fs, "Path escapes project root", {})
        ELSE IF existed /\ ~is_file(fs, file_path)
          THEN ToolError(fs, "Path is not a file", {file_path})
        ELSE IF existed /\ before # <<>> /\ before # content /\ ~allow_overwrite
          THEN ToolError(fs, "Refusing full overwrite of existing non-empty file", {file_path})
        ELSE Return(fs, file_path, before # content, FALSE, TRUE,
                    [NoArgs EXCEPT !.name = "write_file", !.path = Relative(file_path),
                                   !.content = content, !.allow_overwrite = allow_overwrite],
                    {file_path})

preview_replace_in_file(fs, path, find, replace, count) ==
    LET r == _resolve_path(path)
        file_path == r.path
        original == read_text(Entry(fs, file_path).bytes)
        occurrences == CountOf(original, find)
        updated == ReplaceIn(original, find, replace, IF count = 0 THEN occurrences ELSE count)
    IN  IF find = <<>> THEN ToolError(fs, "find must not be empty", {})
        ELSE IF ~r.ok THEN ToolError(fs, "Path escapes project root", {})
        ELSE IF ~is_file(fs, file_path) THEN ToolError(fs, "File not found", {file_path})
        ELSE Return(fs, file_path, updated # original, FALSE, TRUE,
                    [NoArgs EXCEPT !.name = "replace_in_file", !.path = Relative(file_path),
                                   !.find = find, !.replace = Str(replace), !.count = count],
                    {file_path})

preview_delete_file(fs, path) ==
    LET r == _resolve_path(path)
        file_path == r.path
    IN  IF ~r.ok THEN ToolError(fs, "Path escapes project root", {})
        ELSE IF ~is_file(fs, file_path) THEN ToolError(fs, "File not found", {file_path})
        ELSE Return(fs, file_path, TRUE, FALSE, TRUE,
                    [NoArgs EXCEPT !.name = "delete_file", !.path = Relative(file_path)], {file_path})

\* _build_unified_diff: the empty text when the two texts are equal, otherwise
\* the two names of the header and the texts whose lines the hunks are made of
_build_unified_diff(before, after, relative_path, before_exists, after_exists) ==
    IF before = after THEN <<>>
    ELSE <<IF before_exists THEN <<"a">> \o relative_path ELSE <<"/dev/null">>,
           IF after_exists THEN <<"b">> \o relative_path ELSE <<"/dev/null">>,
           before, after>>

\* the "diff" of the result of a preview, by the tool that was previewed
preview_diff(fs, call) ==
    LET file_path == _resolve_path(_required_str(call.path)).path
        existed == exists(fs, file_path)
        before == IF existed THEN read_text(Entry(fs, file_path).bytes) ELSE <<>>
        find == _required_str(call.find)
        occurrences == CountOf(before, find)
        updated == ReplaceIn(before, find, _required_replace(call.replace),
                             IF call.count = 0 THEN occurrences ELSE call.count)
    IN  CASE call.name = "write_file" ->
               _build_unified_diff(before, _required_str(call.content), Relative(file_path),
                                   existed, TRUE)
          [] call.name = "replace_in_file" ->
               _build_unified_diff(before, updated, Relative(file_path), TRUE, TRUE)
          [] call.name = "delete_file" ->
               _build_unified_diff(before, <<>>, Relative(file_path), TRUE, FALSE)
          [] OTHER -> <<>>

\* WorkspaceTools.execute: the arguments are read in the order of the code,
\* then the tool is chosen by its name and by auto_apply
execute(fs, call, auto_apply) ==
    CASE call.name = "list_files" -> list_files(fs, _as_str(call.path, <<".">>))
      [] call.name = "read_file" ->
            IF _required_str(call.path) = <<>> THEN ToolError(fs, "path is required", {})
            ELSE read_file(fs, _required_str(call.path))
      [] call.name = "search_in_files" ->
            IF _required_str(call.find) = <<>> THEN ToolError(fs, "query is required", {})
            ELSE search_in_files(fs, _required_str(call.find), _as_str(call.path, <<".">>))
      [] call.name = "write_file" ->
            IF _required_str(call.path) = <<>> THEN ToolError(fs, "path is required", {})
            ELSE IF _required_str(call.content) = <<>>
              THEN ToolError(fs, "content is required", {})
            ELSE IF auto_apply
              THEN write_file(fs, _required_str(call.path), _required_str(call.content),
                              call.allow_overwrite)
            ELSE preview_write_file(fs, _required_str(call.path), _required_str(call.content),
                                    call.allow_overwrite)
      [] call.name = "replace_in_file" ->
            IF _required_str(call.path) = <<>> THEN ToolError(fs, "path is required", {})
            ELSE IF _required_str(call.find) = <<>> THEN ToolError(fs, "find is required", {})
            ELSE IF call.replace = Missing THEN ToolError(fs, "replace is required", {})
            ELSE IF auto_apply
              THEN replace_in_file(fs, _required_str(call.path), _required_str(call.find),
                                   _required_replace(call.replace), call.count)
            ELSE preview_replace_in_file(fs, _required_str(call.path), _required_str(call.find),
                                         _required_replace(call.replace), call.count)
      [] call.name = "delete_file" ->
            IF _required_str(call.path) = <<>> THEN ToolError(fs, "path is required", {})
            ELSE IF auto_apply THEN delete_file(fs, _required_str(call.path))
            ELSE preview_delete_file(fs, _required_str(call.path))
      [] OTHER -> ToolError(fs, "Unknown tool", {})

\* ----------------------------------------------------- agent task loop
\* The policy callback is asked before the executor; a denial is an error
\* result and the executor is not called.
tool_policy_gate(policy, tool_name) == _decide_tool_policy(policy, tool_name).decision

\* _TOOL_NAME_ALIASES.get(tool_name, tool_name)
_TOOL_NAME_ALIASES(tool_name) ==
    IF tool_name \in {"create_file", "append_file"} THEN "write_file" ELSE tool_name

\* the arguments _execute_tool_call hands to the executor: a replace_in_file
\* without "replace" gets the empty replacement (a write_file without
\* "content" the empty content, which is what a missing content already is)
DefaultedArgs(tool_name, call) ==
    IF tool_name = "replace_in_file" /\ call.replace = Missing
    THEN [call EXCEPT !.name = tool_name, !.replace = Str(<<>>)]
    ELSE [call EXCEPT !.name = tool_name]

\* AgentRuntime._execute_tool_call: the payload of one tool call.  ran says
\* whether WorkspaceTools.execute was called, error is empty on success.
_execute_tool_call(fs, call, auto_apply, policy) ==
    LET tool_name == _TOOL_NAME_ALIASES(call.name)
        Payload(res) ==
            [ok |-> res.ok, name |-> tool_name, path |-> res.path, fs |-> res.fs,
             ran |-> TRUE, changed |-> res.changed, applied |-> res.applied,
             previewed |-> res.previewed, decision |-> "approve",
             error |-> IF res.raised = "OSError" THEN "tool execution failed" ELSE res.error,
             apply_args |-> res.apply_args]
    IN  IF call.name = ""
        THEN [ok |-> FALSE, name |-> "", path |-> <<>>, fs |-> fs, ran |-> FALSE,
              changed |-> FALSE, applied |-> FALSE, previewed |-> FALSE,
              decision |-> "approve", error |-> "tool name is missing",
              apply_args |-> NoArgs]
        ELSE IF tool_policy_gate(policy, call.name) = "deny"
        THEN [ok |-> FALSE, name |-> call.name, path |-> <<>>, fs |-> fs, ran |-> FALSE,
              changed |-> FALSE, applied |-> FALSE, previewed |-> FALSE,
              decision |-> "deny", error |-> "denied by policy", apply_args |-> NoArgs]
        ELSE Payload(execute(fs, DefaultedArgs(tool_name, call), auto_apply))

\* _extract_changed_path: the path of an applied change, or none
_extract_changed_path(payload) ==
    IF payload.ok /\ ~payload.previewed /\ payload.changed /\ payload.path # <<>>
    THEN {payload.path} ELSE {}

\* a pending change is recorded for replace_in_file and delete_file only
_extract_pending_change_no_write(payload) ==
    IF payload.ok /\ payload.name \in (MUTATING_TOOL_NAMES \ {"write_file"})
       /\ payload.previewed /\ payload.changed
    THEN <<[operation |-> payload.name, path |-> payload.path,
            apply_args |-> payload.apply_args]>>
    ELSE <<>>

\* _extract_pending_change: the pending change of a preview, or none
_extract_pending_change(payload) ==
    IF payload.ok /\ payload.name \in MUTATING_TOOL_NAMES /\ payload.previewed /\ payload.changed
    THEN <<[operation |-> payload.name, path |-> payload.path,
            apply_args |-> payload.apply_args]>>
    ELSE <<>>

\* _tool_result_stream_event, with the policy decision of the payload attached
_tool_result_stream_event(payload) ==
    [type |-> "tool_result", text |-> "result", decision |-> payload.decision]

StatusEvent(text) == [type |-> "status", text |-> text, decision |-> "none"]
ToolStartEvent == [type |-> "tool_start", text |-> "vypolnyayu", decision |-> "none"]

\* the two substrings _map_runtime_stream_events looks for in a status text
HasVypolnyayu(text) == text = "vypolnyayu"
HasOtvetSformirovan(text) == text = "otvet sformirovan"

\* a mapping that takes the phase from the event type alone
_map_runtime_stream_events_by_type(source_event) ==
    LET event_type == source_event.type
        phase ==
            IF event_type \in {"tool_start", "tool_result"} THEN "act"
            ELSE IF event_type = "assistant_delta" THEN "final"
            ELSE "plan"
        decision ==
            IF source_event.decision \in {"approve", "deny"} THEN source_event.decision
            ELSE "approve"
        progress == [event |-> "run.progress", phase |-> phase, decision |-> "none",
                     payload |-> event_type]
    IN  IF event_type = "tool_result"
        THEN <<progress, [event |-> "tool.result", phase |-> "act", decision |-> decision,
                          payload |-> event_type]>>
        ELSE <<progress>>

\* AgentProtocolRuntime._map_runtime_stream_events
_map_runtime_stream_events(source_event) ==
    LET event_type == source_event.type
        phase ==
            IF event_type \in {"tool_start", "tool_result"} THEN "act"
            ELSE IF event_type = "assistant_delta" THEN "final"
            ELSE IF event_type = "reasoning_delta" THEN "plan"
            ELSE IF event_type = "status" /\ HasVypolnyayu(source_event.text) THEN "act"
            ELSE IF event_type = "status" /\ HasOtvetSformirovan(source_event.text) THEN "final"
            ELSE "plan"
        decision ==
            IF source_event.decision \in {"approve", "deny"} THEN source_event.decision
            ELSE "approve"
        progress == [event |-> "run.progress", phase |-> phase, decision |-> "none",
                     payload |-> event_type]
    IN  IF event_type = "tool_result"
        THEN <<progress, [event |-> "tool.result", phase |-> "act", decision |-> decision,
                          payload |-> event_type]>>
        ELSE <<progress>>

\* an event _execute_prompt_run emits itself: it carries no loop event
RuntimeEvent(name, phase) ==
    [event |-> name, phase |-> phase, decision |-> "none", payload |-> "none"]

\* ------------------------------------------------------ protocol runtime
NoResult ==
    [present |-> FALSE, tool_steps |-> 0, applied_files |-> {}, pending_changes |-> <<>>]

NoSession == [exists |-> FALSE, active_run_id |-> NoRun, tool_policy |-> NoPolicy]

EmptyRun ==
    [exists |-> FALSE, session_id |-> 0, status |-> "queued", result |-> NoResult,
     error |-> "none", auto_apply |-> TRUE,
     tool_policy |-> _resolve_tool_policy(NoPolicy, NoPolicy),
     verify_commands |-> 0, requires_changes |-> FALSE, created_at |-> 0]

InitLoc ==
    [step |-> 0, total_tool_calls |-> 0, applied_files |-> {}, pending_changes |-> <<>>,
     site |-> "none", attempt |-> 0, cum_results |-> 0, cum_applied |-> {},
     cum_pending |-> <<>>, fb_replies |-> 0, result |-> NoResult, vdone |-> 0]

NoResp == [op |-> "none", pre |-> "none", out |-> "none", run |-> NoRun]
IdleWaiter == [state |-> "idle", run |-> NoRun]

Finished == {"done", "cancelled", "raised"}
Live == {"pending", "emit_started", "prepare", "model", "fallback", "drain", "verify",
         "emit_verified", "emit_completed", "c_drain", "c_emit", "f_drain", "f_emit"}
InTry == {"prepare", "model", "fallback", "drain", "verify", "emit_verified", "emit_completed"}
Draining == {"drain", "c_drain", "f_drain"}

\* _persist_state: the whole session and run tables, as to_dict gives them, are
\* saved; "if self._store is None: return" leaves the store as it is
_persist_state(S, R) == IF store THEN [sessions |-> S, runs |-> R] ELSE persisted

\* _get_active_run: the session's active run, or none; a stale pointer is cleared
_get_active_run(S, s) ==
    LET a == S[s].active_run_id
        cleared == [S EXCEPT ![s].active_run_id = NoRun]
    IN  IF a = NoRun THEN [run |-> NoRun, sessions |-> S]
        ELSE IF ~runs[a].exists THEN [run |-> NoRun, sessions |-> cleared]
        ELSE IF task[a] \in Finished THEN [run |-> NoRun, sessions |-> cleared]
        ELSE IF runs[a].status \in Terminal THEN [run |-> NoRun, sessions |-> cleared]
        ELSE [run |-> a, sessions |-> S]

\* _prune_runs: with the runs sorted by created_at, the len - limit oldest are
\* popped, and each popped run that is not its session's active run is removed
\* a pruning that removes every popped run
_prune_runs_active_too(R, S, limit) ==
    LET existing == {r \in DOMAIN R : R[r].exists}
        n == Cardinality(existing)
        Older(r) == Cardinality({q \in existing : R[q].created_at < R[r].created_at})
        popped == {r \in existing : Older(r) < n - limit}
    IN  [r \in DOMAIN R |-> IF r \in popped THEN EmptyRun ELSE R[r]]

_prune_runs(R, S, limit) ==
    LET existing == {r \in DOMAIN R : R[r].exists}
        n == Cardinality(existing)
        Older(r) == Cardinality({q \in existing : R[q].created_at < R[r].created_at})
        popped == {r \in existing : Older(r) < n - limit}
        removed == {r \in popped : S[R[r].session_id].active_run_id # r}
    IN  [r \in DOMAIN R |-> IF r \in removed THEN EmptyRun ELSE R[r]]

\* the inputs the runtime specification draws start_prompt's arguments from
DenyDelete == [NoPolicy EXCEPT !.deny_tools = List({"delete_file"})]
Overrides == {NoPolicy, DenyDelete}

create_session(s) ==
    /\ resp' = NoResp
    /\ ~sessions[s].exists
    /\ \A q \in SessionIds : q < s => sessions[q].exists
    /\ sessions' = [sessions EXCEPT ![s] = [exists |-> TRUE, active_run_id |-> NoRun,
                                             tool_policy |-> NoPolicy]]
    /\ persisted' = _persist_state(sessions', runs)
    /\ UNCHANGED <<runs, task, must_cancel, loc, streamQ, streamBusy, sinkLog, files,
                   toolLog, waiter, cancel_accepted, restarts, pin, store, sinkRaised>>

start_prompt(s, auto_apply, override, verify_commands, requires_changes) ==
    /\ sessions[s].exists
    /\ LET got == _get_active_run(sessions, s)
           cur == sessions[s].active_run_id
           pre == IF cur # NoRun /\ runs[cur].exists THEN runs[cur].status ELSE "none"
       IN  IF got.run # NoRun
           THEN /\ resp' = [op |-> "start_prompt", pre |-> pre, out |-> "run_in_progress",
                            run |-> got.run]
                /\ UNCHANGED <<sessions, runs, task, must_cancel, loc, streamQ, streamBusy,
                               sinkLog, files, toolLog, persisted, waiter, cancel_accepted,
                               restarts, pin, store, sinkRaised>>
           ELSE \E new \in RunIds :
                /\ ~runs[new].exists
                /\ \A q \in RunIds : q < new => runs[q].exists
                /\ LET run == [exists |-> TRUE, session_id |-> s, status |-> "queued",
                               result |-> NoResult, error |-> "none",
                               auto_apply |-> auto_apply,
                               tool_policy |-> _resolve_tool_policy(sessions[s].tool_policy, override),
                               verify_commands |-> verify_commands,
                               requires_changes |-> requires_changes,
                               created_at |-> new]
                       S1 == [got.sessions EXCEPT ![s].active_run_id = new]
                       R1 == [runs EXCEPT ![new] = run]
                       R2 == _prune_runs(R1, S1, RUN_RETENTION_LIMIT)
                   IN  /\ sessions' = S1
                       /\ runs' = R2
                       /\ persisted' = _persist_state(S1, R2)
                       /\ task' = [task EXCEPT ![new] = "pending"]
                       /\ must_cancel' = [must_cancel EXCEPT ![new] = FALSE]
                       /\ loc' = [loc EXCEPT ![new] = InitLoc]
                       /\ streamQ' = [streamQ EXCEPT ![new] = <<>>]
                       /\ streamBusy' = [streamBusy EXCEPT ![new] = FALSE]
                       /\ sinkLog' = [sinkLog EXCEPT ![new] = <<>>]
                       /\ toolLog' = [toolLog EXCEPT ![new] = <<>>]
                       /\ resp' = [op |-> "start_prompt", pre |-> pre, out |-> "accepted",
                                   run |-> new]
                       /\ UNCHANGED <<files, waiter, cancel_accepted, restarts, pin, store, sinkRaised>>

\* cancel_run: run_id = NoRun stands for run_id=None
cancel_run(s, run_id) ==
    /\ sessions[s].exists
    /\ LET target == IF run_id # NoRun THEN run_id ELSE sessions[s].active_run_id
           pre == IF target = NoRun THEN "none"
                  ELSE IF ~runs[target].exists THEN "absent"
                  ELSE runs[target].status
           answer(out) == [op |-> "cancel_run", pre |-> pre, out |-> out, run |-> target,
                           session_id |-> s]
       IN  IF target = NoRun \/ ~runs[target].exists \/ task[target] \notin Live
           THEN /\ resp' = answer(IF target = NoRun THEN "no_active_run"
                                  ELSE IF ~runs[target].exists THEN "raise_not_found"
                                  ELSE IF task[target] = "none" THEN "run_task_missing"
                                  ELSE "run_already_finished")
                /\ UNCHANGED <<sessions, runs, task, must_cancel, loc, streamQ, streamBusy,
                               sinkLog, files, toolLog, persisted, waiter, cancel_accepted,
                               restarts, pin, store, sinkRaised>>
           ELSE /\ must_cancel' = [must_cancel EXCEPT ![target] = TRUE]
                \* cancelling a task that awaits gather cancels the gathered event tasks
                /\ streamQ' = IF task[target] \in Draining
                              THEN [streamQ EXCEPT ![target] = <<>>] ELSE streamQ
                /\ streamBusy' = IF task[target] \in Draining
                                 THEN [streamBusy EXCEPT ![target] = FALSE] ELSE streamBusy
                /\ persisted' = _persist_state(sessions, runs)
                /\ cancel_accepted' = cancel_accepted \cup {target}
                /\ resp' = answer("cancelled")
                /\ UNCHANGED <<sessions, runs, task, loc, sinkLog, files, toolLog, waiter,
                               restarts, pin, store, sinkRaised>>

\* wait_run: returns at once when the task is missing or done, else awaits the
\* shielded task
wait_run_call(r) ==
    /\ runs[r].exists
    /\ waiter.state = "idle"
    /\ IF task[r] \in Live
       THEN /\ waiter' = [state |-> "waiting", run |-> r]
            /\ resp' = NoResp
       ELSE /\ resp' = [op |-> "wait_run", pre |-> "none", out |-> runs[r].status, run |-> r]
            /\ UNCHANGED waiter
    /\ UNCHANGED <<sessions, runs, task, must_cancel, loc, streamQ, streamBusy, sinkLog,
                   files, toolLog, persisted, cancel_accepted, restarts, pin, store, sinkRaised>>

\* the awaited task has finished: the snapshot is returned, or the task's
\* CancelledError reaches the caller through the shield
wait_run_wake ==
    /\ waiter.state = "waiting"
    /\ task[waiter.run] \in Finished
    /\ resp' = [op |-> "wait_run", pre |-> "waited",
                out |-> IF task[waiter.run] = "cancelled" THEN "raise_cancelled_error"
                        ELSE IF task[waiter.run] = "raised" THEN "raise_exception"
                        ELSE IF runs[waiter.run].exists THEN runs[waiter.run].status
                        ELSE "absent",
                run |-> waiter.run]
    /\ waiter' = IdleWaiter
    /\ UNCHANGED <<sessions, runs, task, must_cancel, loc, streamQ, streamBusy, sinkLog,
                   files, toolLog, persisted, cancel_accepted, restarts, pin, store, sinkRaised>>

\* a wait_for on the task itself: the timeout cancels the task
shield_absent(r) == TRUE

\* asyncio.shield: the cancellation wait_for sends on a timeout ends at the
\* shield, the task keeps the cancel request it had
shield(r) == must_cancel[r]

\* wait_for times out while the task is not done: the timeout error is raised
wait_run_expires ==
    /\ waiter.state = "waiting"
    /\ task[waiter.run] \in Live
    /\ resp' = [op |-> "wait_run", pre |-> "waited", out |-> "raise_timeout", run |-> waiter.run]
    /\ waiter' = IdleWaiter
    /\ must_cancel' = [must_cancel EXCEPT ![waiter.run] = shield(waiter.run)]
    /\ UNCHANGED <<sessions, runs, task, loc, streamQ, streamBusy, sinkLog,
                   files, toolLog, persisted, cancel_accepted, restarts, store, sinkRaised>>

wait_run_timeout ==
    /\ wait_run_expires
    /\ UNCHANGED pin

\* the same, with the run noted in pin as one whose wait has timed out
wait_run_timeout_noted ==
    /\ wait_run_expires
    /\ pin' = pin \cup {waiter.run}

\* --------------------------------------------- _execute_prompt_run, by await
\* what a call of the on_event sink does
SinkOutcomes == {"returns", "raises"}

\* an _emit_event without its try: what the sink raises reaches the caller
_emit_event_unguarded(sink) == sink

\* _emit_event: "except Exception: return", whatever the sink did
_emit_event(sink) == "returns"

\* the record of the sink's failures, after a call on the event that is the
\* last of the run's log (ahead = 0) or is being appended to it (ahead = 1)
RaisedOn(r, sink, ahead) ==
    IF sink = "raises" THEN sinkRaised \cup {<<r, Len(sinkLog[r]) + ahead>>} ELSE sinkRaised

\* a cancellation that only sets a flag nobody checks at the await
resumes_regardless(r) == TRUE

\* Task.cancel(): the await the task is suspended on gives its value to the
\* coroutine only if no cancellation has been requested since
resumes_normally(r) == ~must_cancel[r]

\* a drain that waits for no stream event task
Undone_never(r) == FALSE

Undone(r) == streamQ[r] # <<>> \/ streamBusy[r]

Emit(log, r, name, phase) == [log EXCEPT ![r] = Append(@, RuntimeEvent(name, phase))]

\* the finally block: the session's pointer is cleared if it is still this run
Finally(r, end) ==
    /\ sessions' = [sessions EXCEPT ![runs[r].session_id].active_run_id =
                        IF @ = r THEN NoRun ELSE @]
    /\ persisted' = _persist_state(sessions', runs)
    /\ task' = [task EXCEPT ![r] = end]
    /\ loc' = [loc EXCEPT ![r] = InitLoc]
    /\ UNCHANGED <<runs, sinkLog>>

\* except CancelledError, after its drain: status cancelled, run.cancelled emitted
CancelNow(r) ==
    /\ runs' = [runs EXCEPT ![r].status = "cancelled"]
    /\ persisted' = _persist_state(sessions, runs')
    /\ sinkLog' = Emit(sinkLog, r, "run.cancelled", "final")
    /\ task' = [task EXCEPT ![r] = "c_emit"]
    /\ loc' = [loc EXCEPT ![r] = InitLoc]
    /\ UNCHANGED sessions

\* except Exception, after its drain: status failed, run.failed emitted
FailNow(r) ==
    /\ runs' = [runs EXCEPT ![r].status = "failed", ![r].error = "Exception"]
    /\ persisted' = _persist_state(sessions, runs')
    /\ sinkLog' = Emit(sinkLog, r, "run.failed", "final")
    /\ task' = [task EXCEPT ![r] = "f_emit"]
    /\ loc' = [loc EXCEPT ![r] = InitLoc]
    /\ UNCHANGED sessions

\* run_agent_task raised: the handler first drains the stream event tasks
RaiseInTry(r, undone) ==
    IF undone
    THEN /\ task' = [task EXCEPT ![r] = "f_drain"]
         /\ loc' = [loc EXCEPT ![r] = InitLoc]
         /\ UNCHANGED <<sessions, runs, persisted, sinkLog>>
    ELSE FailNow(r)

\* after verification: result stored, status completed, run.verified emitted
Complete(r, L) ==
    /\ runs' = [runs EXCEPT ![r].result = [L.result EXCEPT !.present = TRUE],
                            ![r].status = "completed"]
    /\ persisted' = _persist_state(sessions, runs')
    /\ sinkLog' = Emit(sinkLog, r, "run.verified", "verify")
    /\ task' = [task EXCEPT ![r] = "emit_verified"]
    /\ loc' = [loc EXCEPT ![r] = InitLoc]
    /\ UNCHANGED sessions

\* after the drain: _run_workspace_verification awaits one subprocess per command
AfterDrain(r, L) ==
    IF L.vdone >= runs[r].verify_commands
    THEN Complete(r, L)
    ELSE /\ task' = [task EXCEPT ![r] = "verify"]
         /\ loc' = [loc EXCEPT ![r] = L]
         /\ UNCHANGED <<sessions, runs, persisted, sinkLog>>

\* run_agent_task returned res: _drain_stream_event_tasks awaits only if some
\* stream event task is not done
ReturnFromAgent(r, res, undone) ==
    IF undone
    THEN /\ task' = [task EXCEPT ![r] = "drain"]
         /\ loc' = [loc EXCEPT ![r] = [InitLoc EXCEPT !.result = res]]
         /\ UNCHANGED <<sessions, runs, persisted, sinkLog>>
    ELSE AfterDrain(r, [InitLoc EXCEPT !.result = res])

\* first step of the task: status running, run.started emitted (before the try)
task_start(r) ==
    /\ resp' = NoResp
    /\ task[r] = "pending" /\ resumes_normally(r)
    /\ runs' = [runs EXCEPT ![r].status = "running"]
    /\ persisted' = _persist_state(sessions, runs')
    /\ sinkLog' = Emit(sinkLog, r, "run.started", "plan")
    /\ task' = [task EXCEPT ![r] = "emit_started"]
    /\ UNCHANGED <<sessions, must_cancel, loc, streamQ, streamBusy, files, toolLog,
                   waiter, cancel_accepted, restarts, pin, store, sinkRaised>>

\* the sink has taken run.started: the try is entered and run_agent_task awaits
\* resolve_model, _ensure_authenticated, _ensure_chat_for_task and the history
emit_started_resumed(r, outcome) ==
    /\ resp' = NoResp
    /\ task[r] = "emit_started" /\ resumes_normally(r)
    /\ task' = [task EXCEPT ![r] = IF outcome = "raises" THEN "raised" ELSE "prepare"]
    /\ loc' = [loc EXCEPT ![r] = InitLoc]
    /\ UNCHANGED <<sessions, runs, must_cancel, streamQ, streamBusy, sinkLog, files,
                   toolLog, persisted, waiter, cancel_accepted, restarts, pin, store>>

emit_started_return(r, sink) ==
    /\ emit_started_resumed(r, _emit_event(sink))
    /\ sinkRaised' = RaisedOn(r, sink, 0)

\* the preparation is over: the first status event is emitted and the first
\* model call awaited; or one of the awaited calls raised
prepare_return(r, ok) ==
    /\ resp' = NoResp
    /\ task[r] = "prepare" /\ resumes_normally(r) /\ streamQ[r] = <<>>
    /\ IF ok
       THEN /\ streamQ' = [streamQ EXCEPT ![r] = _map_runtime_stream_events(StatusEvent("step"))]
            /\ task' = [task EXCEPT ![r] = "model"]
            /\ UNCHANGED <<sessions, runs, persisted, sinkLog, loc>>
       ELSE /\ RaiseInTry(r, streamBusy[r])
            /\ UNCHANGED streamQ
    /\ UNCHANGED <<must_cancel, streamBusy, files, toolLog, waiter, cancel_accepted,
                   restarts, pin, store, sinkRaised>>

drain_done(r) ==
    /\ resp' = NoResp
    /\ task[r] = "drain" /\ resumes_normally(r) /\ ~Undone(r)
    /\ AfterDrain(r, loc[r])
    /\ UNCHANGED <<must_cancel, streamQ, streamBusy, files, toolLog, waiter, cancel_accepted, restarts, pin, store, sinkRaised>>

\* one verification subprocess has ended (passed, failed, timeout or error)
verify_return(r) ==
    /\ resp' = NoResp
    /\ task[r] = "verify" /\ resumes_normally(r)
    /\ AfterDrain(r, [loc[r] EXCEPT !.vdone = @ + 1])
    /\ UNCHANGED <<must_cancel, streamQ, streamBusy, files, toolLog, waiter, cancel_accepted, restarts, pin, store, sinkRaised>>

emit_verified_resumed(r, outcome) ==
    /\ resp' = NoResp
    /\ task[r] = "emit_verified" /\ resumes_normally(r)
    /\ IF outcome = "raises"
       THEN RaiseInTry(r, Undone(r))
       ELSE /\ sinkLog' = Emit(sinkLog, r, "run.completed", "final")
            /\ task' = [task EXCEPT ![r] = "emit_completed"]
            /\ UNCHANGED <<sessions, runs, loc, persisted>>
    /\ UNCHANGED <<must_cancel, streamQ, streamBusy, files, toolLog, waiter,
                   cancel_accepted, restarts, pin, store>>

emit_verified_return(r, sink) ==
    /\ emit_verified_resumed(r, _emit_event(sink))
    /\ sinkRaised' = RaisedOn(r, sink, 0)

\* the last emit of the try or of a handler has returned: finally, task done
final_emit_resumed(r, outcome) ==
    /\ resp' = NoResp
    /\ task[r] \in {"emit_completed", "c_emit", "f_emit"} /\ resumes_normally(r)
    /\ IF outcome = "returns" THEN Finally(r, "done")
       ELSE IF task[r] = "emit_completed" THEN RaiseInTry(r, Undone(r))
       ELSE \* inside a handler: it propagates through the finally block
            Finally(r, "raised")
    /\ UNCHANGED <<must_cancel, streamQ, streamBusy, files, toolLog, waiter,
                   cancel_accepted, restarts, pin, store>>

final_emit_return(r, sink) ==
    /\ final_emit_resumed(r, _emit_event(sink))
    /\ sinkRaised' = RaisedOn(r, sink, 0)

\* the drain of a handler is over
handler_drain_done(r) ==
    /\ resp' = NoResp
    /\ task[r] \in {"c_drain", "f_drain"} /\ resumes_normally(r) /\ ~Undone(r)
    /\ IF task[r] = "c_drain" THEN CancelNow(r) ELSE FailNow(r)
    /\ UNCHANGED <<must_cancel, streamQ, streamBusy, files, toolLog, waiter, cancel_accepted, restarts, pin, store, sinkRaised>>

\* where a requested cancellation is raised: Task.cancel() throws CancelledError
\* into the coroutine at whatever await it is suspended on
cancel_is_raised_at(pc) == pc \in Live

\* the task's next step raises CancelledError at its await
deliver_cancel(r) ==
    /\ resp' = NoResp
    /\ must_cancel[r] /\ cancel_is_raised_at(task[r]) /\ streamQ[r] = <<>>
    /\ must_cancel' = [must_cancel EXCEPT ![r] = FALSE]
    /\ IF task[r] \in {"pending", "emit_started"}
       THEN \* before the try: nothing catches it, no finally runs
            /\ task' = [task EXCEPT ![r] = "cancelled"]
            /\ loc' = [loc EXCEPT ![r] = InitLoc]
            /\ UNCHANGED <<sessions, runs, persisted, sinkLog>>
       ELSE IF task[r] \in InTry
       THEN IF Undone(r)
            THEN /\ task' = [task EXCEPT ![r] = "c_drain"]
                 /\ loc' = [loc EXCEPT ![r] = InitLoc]
                 /\ UNCHANGED <<sessions, runs, persisted, sinkLog>>
            ELSE CancelNow(r)
       ELSE \* inside a handler: it propagates through the finally block
            Finally(r, "cancelled")
    /\ UNCHANGED <<streamQ, streamBusy, files, toolLog, waiter, cancel_accepted,
                   restarts, pin, store, sinkRaised>>

\* a stream event task takes its first step: the sink receives the event and
\* may suspend the task
stream_delivered(r, suspends) ==
    /\ resp' = NoResp
    /\ streamQ[r] # <<>>
    /\ sinkLog' = [sinkLog EXCEPT ![r] = Append(@, Head(streamQ[r]))]
    /\ streamQ' = [streamQ EXCEPT ![r] = Tail(@)]
    /\ streamBusy' = [streamBusy EXCEPT ![r] = @ \/ suspends]
    /\ UNCHANGED <<sessions, runs, task, must_cancel, loc, files, toolLog, persisted,
                   waiter, cancel_accepted, restarts, pin, store>>

\* a sink that does not suspend the task returns or raises at once; whatever
\* leaves _emit_event ends the stream event task only, which nobody awaits
\* but the gather of the drain (return_exceptions=True)
deliver_stream(r, suspends, sink) ==
    /\ suspends => sink = "returns"
    /\ stream_delivered(r, suspends)
    /\ sinkRaised' = RaisedOn(r, sink, 1)

\* the suspended sink calls of the run's stream events have returned
sink_resumed(r) ==
    /\ resp' = NoResp
    /\ streamBusy[r]
    /\ streamBusy' = [streamBusy EXCEPT ![r] = FALSE]
    /\ UNCHANGED <<sessions, runs, task, must_cancel, loc, streamQ, files, toolLog,
                   sinkLog, persisted, waiter, cancel_accepted, restarts, pin, store>>

sink_return(r, sink) ==
    /\ sink_resumed(r)
    /\ sinkRaised' = RaisedOn(r, sink, 0)

\* ------------------------------------------------ run_agent_task, by await
FALLBACK_RESULT_HISTORY == 48

Min(a, b) == IF a < b THEN a ELSE b

\* the entry toolLog keeps of one handled tool call
LogEntry(payload, before, via, evented) ==
    [name |-> payload.name, decision |-> payload.decision, ran |-> payload.ran,
     ok |-> payload.ok, untouched |-> (payload.fs = before), via |-> via,
     event |-> evented]

\* pending_changes of the fallback, deduplicated by the operation/path marker
RECURSIVE AddPending(_, _)
AddPending(cum, changes) ==
    IF changes = <<>> THEN cum
    ELSE AddPending(IF \E i \in 1..Len(cum) : cum[i] = Head(changes) THEN cum
                    ELSE Append(cum, Head(changes)),
                    Tail(changes))

\* a tool message that reports every call as done
_build_tool_message_ok(payload) ==
    [role |-> "tool", name |-> IF payload.name = "" THEN "tool" ELSE payload.name,
     ok |-> TRUE, error |-> ""]

\* _build_tool_message: the tool message of a call, whose content is the payload
_build_tool_message(payload) ==
    [role |-> "tool", name |-> IF payload.name = "" THEN "tool" ELSE payload.name,
     ok |-> payload.ok, error |-> payload.error]

\* the body of "for tool_call in tool_calls": st carries the workspace, the
\* loop's counters, the tool log, the tool messages appended to the
\* conversation and the stream events emitted so far
RECURSIVE RunToolCalls(_, _, _)
RunToolCalls(calls, run, st) ==
    IF calls = <<>> THEN st
    ELSE LET Record(payload) ==
                [fs |-> payload.fs,
                 total_tool_calls |-> st.total_tool_calls + 1,
                 applied_files |-> st.applied_files \cup _extract_changed_path(payload),
                 pending_changes |-> st.pending_changes \o _extract_pending_change(payload),
                 log |-> Append(st.log, LogEntry(payload, st.fs, "loop", TRUE)),
                 messages |-> Append(st.messages, _build_tool_message(payload)),
                 events |-> st.events \o _map_runtime_stream_events(ToolStartEvent)
                                      \o _map_runtime_stream_events(_tool_result_stream_event(payload))]
         IN  RunToolCalls(Tail(calls), run,
                Record(_execute_tool_call(st.fs, Head(calls), run.auto_apply, run.tool_policy)))

\* the body of "for idx, action in enumerate(actions)" of the fallback: an
\* action without a tool name is skipped; no stream callback is passed down,
\* so no event is emitted here
RECURSIVE RunFallbackActions(_, _, _)
RunFallbackActions(actions, run, st) ==
    IF actions = <<>> THEN st
    ELSE IF _TOOL_NAME_ALIASES(Head(actions).name) = ""
      THEN RunFallbackActions(Tail(actions), run, st)
    ELSE LET Record(payload) ==
                [fs |-> payload.fs,
                 tool_results |-> st.tool_results + 1,
                 applied_files |-> st.applied_files \cup _extract_changed_path(payload),
                 pending_changes |-> st.pending_changes \o _extract_pending_change(payload),
                 has_mutating_actions |-> st.has_mutating_actions
                                          \/ Head(actions).name \in MUTATING_TOOL_NAMES,
                 log |-> Append(st.log, LogEntry(payload, st.fs, "fallback", FALSE))]
         IN  RunFallbackActions(Tail(actions), run,
                Record(_execute_tool_call(st.fs, Head(actions), run.auto_apply, run.tool_policy)))

\* run_agent_task's result without a fallback (final answer or timeout summary)
LoopResult(L) ==
    [present |-> TRUE, tool_steps |-> L.total_tool_calls,
     applied_files |-> L.applied_files, pending_changes |-> L.pending_changes]

\* the events chat_completion_stream reports while the reply is streamed
AssistantDelta == [type |-> "assistant_delta", text |-> "delta", decision |-> "none"]
ReasoningDelta == [type |-> "reasoning_delta", text |-> "delta", decision |-> "none"]

\* stream_callback on each event in turn: the events handed to the sink
RECURSIVE MapAll(_)
MapAll(events) ==
    IF events = <<>> THEN <<>>
    ELSE _map_runtime_stream_events(Head(events)) \o MapAll(Tail(events))

\* a completion request of the loop has returned; deltas are the events the
\* client reported while the reply was streamed
model_return(r, kind, tool_calls, deltas) ==
    /\ resp' = NoResp
    /\ task[r] = "model" /\ resumes_normally(r) /\ streamQ[r] = <<>>
    /\ LET L == loc[r]
           run == runs[r]
           streamed == MapAll(deltas)
       IN  CASE kind = "tool_calls" ->
                 /\ tool_calls # <<>>
                 /\ LET Locals(st) ==
                            [L EXCEPT !.step = @ + 1,
                                      !.total_tool_calls = st.total_tool_calls,
                                      !.applied_files = st.applied_files,
                                      !.pending_changes = st.pending_changes]
                        StepDone(st, L1) ==
                            /\ files' = st.fs
                            /\ toolLog' = [toolLog EXCEPT ![r] = st.log]
                            /\ IF L1.step < AGENT_MAX_STEPS
                               THEN /\ streamQ' = [streamQ EXCEPT ![r] = streamed \o st.events \o
                                            _map_runtime_stream_events(StatusEvent("step"))]
                                    /\ loc' = [loc EXCEPT ![r] = L1]
                                    /\ UNCHANGED <<sessions, runs, persisted, sinkLog, task>>
                               ELSE /\ streamQ' = [streamQ EXCEPT ![r] = streamed \o st.events]
                                    /\ ReturnFromAgent(r, LoopResult(L1), TRUE)
                        AfterCalls(st) == StepDone(st, Locals(st))
                    IN  AfterCalls(RunToolCalls(tool_calls, run,
                            [fs |-> files, total_tool_calls |-> L.total_tool_calls,
                             applied_files |-> L.applied_files,
                             pending_changes |-> L.pending_changes,
                             log |-> toolLog[r], messages |-> <<>>, events |-> <<>>]))
            [] kind = "no_tool_calls" ->
                 /\ tool_calls = <<>>
                 /\ UNCHANGED <<files, toolLog>>
                 /\ IF L.total_tool_calls = 0
                       \/ (run.requires_changes /\ L.applied_files = {}
                           /\ L.pending_changes = <<>>)
                    THEN /\ task' = [task EXCEPT ![r] = "fallback"]
                         /\ loc' = [loc EXCEPT ![r] = [L EXCEPT !.site = "rescue"]]
                         /\ streamQ' = [streamQ EXCEPT ![r] = streamed]
                         /\ UNCHANGED <<sessions, runs, persisted, sinkLog>>
                    ELSE /\ streamQ' = [streamQ EXCEPT ![r] = streamed \o
                                 _map_runtime_stream_events(StatusEvent("otvet sformirovan"))]
                         /\ ReturnFromAgent(r, LoopResult(L), TRUE)
            [] kind = "rejected" ->
                 \* 400/404/422 on the streaming and on the non-streaming request
                 /\ tool_calls = <<>>
                 /\ deltas = <<>>
                 /\ UNCHANGED <<files, toolLog>>
                 /\ IF L.total_tool_calls = 0
                    THEN /\ streamQ' = [streamQ EXCEPT ![r] =
                                 _map_runtime_stream_events(StatusEvent("fallback"))]
                         /\ task' = [task EXCEPT ![r] = "fallback"]
                         /\ loc' = [loc EXCEPT ![r] = [L EXCEPT !.site = "reject"]]
                         /\ UNCHANGED <<sessions, runs, persisted, sinkLog>>
                    ELSE /\ RaiseInTry(r, streamBusy[r])
                         /\ UNCHANGED streamQ
            [] kind = "raises" ->
                 /\ tool_calls = <<>>
                 /\ deltas = <<>>
                 /\ UNCHANGED <<files, toolLog, streamQ>>
                 /\ RaiseInTry(r, streamBusy[r])
    /\ UNCHANGED <<must_cancel, streamBusy, waiter, cancel_accepted, restarts, pin, store, sinkRaised>>

\* what run_agent_task does with the value _fallback_agent_to_message returned
\* (fb.present = FALSE stands for fallback = None)
AfterFallback(r, L, fb) ==
    IF L.site = "reject"
    THEN /\ ReturnFromAgent(r, fb, streamBusy[r])
         /\ UNCHANGED streamQ
    ELSE IF fb.present /\ (fb.tool_steps > 0 \/ fb.applied_files # {}
                           \/ fb.pending_changes # <<>>)
    THEN /\ ReturnFromAgent(r, fb, streamBusy[r])
         /\ UNCHANGED streamQ
    ELSE /\ streamQ' = [streamQ EXCEPT ![r] =
                 _map_runtime_stream_events(StatusEvent("otvet sformirovan"))]
         /\ ReturnFromAgent(r, LoopResult(L), TRUE)

\* a send_message request of _fallback_agent_to_message has returned
fallback_return(r, kind, actions) ==
    /\ resp' = NoResp
    /\ task[r] = "fallback" /\ resumes_normally(r) /\ streamQ[r] = <<>>
    /\ LET L == loc[r]
           run == runs[r]
       IN  CASE kind = "reply" ->
                 /\ LET L0 == [L EXCEPT !.fb_replies = Min(@ + 1, FALLBACK_REPAIR_ATTEMPTS + 1)]
                        Locals(st) ==
                            [L0 EXCEPT
                               !.cum_results = Min(FALLBACK_RESULT_HISTORY, @ + st.tool_results),
                               !.cum_applied = @ \cup st.applied_files,
                               !.cum_pending = AddPending(@, st.pending_changes)]
                        ReplyDone(st, L1) ==
                            LET skipped == /\ actions # <<>>
                                           /\ run.requires_changes
                                           /\ ~st.has_mutating_actions
                                           /\ L.attempt < FALLBACK_REPAIR_ATTEMPTS
                                has_effect == st.applied_files # {} \/ st.pending_changes # <<>>
                                fb == [present |-> TRUE, tool_steps |-> L1.cum_results,
                                       applied_files |-> L1.cum_applied,
                                       pending_changes |-> L1.cum_pending]
                            IN  /\ files' = st.fs
                                /\ toolLog' = [toolLog EXCEPT ![r] = st.log]
                                /\ IF skipped
                                   THEN /\ loc' = [loc EXCEPT ![r] = [L0 EXCEPT !.attempt = @ + 1]]
                                        /\ UNCHANGED <<sessions, runs, persisted, sinkLog, task,
                                                       streamQ>>
                                   ELSE IF has_effect \/ L.attempt >= FALLBACK_REPAIR_ATTEMPTS
                                   THEN AfterFallback(r, L1, fb)
                                   ELSE /\ loc' = [loc EXCEPT ![r] = [L1 EXCEPT !.attempt = @ + 1]]
                                        /\ UNCHANGED <<sessions, runs, persisted, sinkLog, task,
                                                       streamQ>>
                        AfterActions(st) == ReplyDone(st, Locals(st))
                    IN  AfterActions(RunFallbackActions(actions, run,
                            [fs |-> files, tool_results |-> 0, applied_files |-> {},
                             pending_changes |-> <<>>, has_mutating_actions |-> FALSE,
                             log |-> toolLog[r]]))
            [] kind = "request_failed" ->
                 /\ actions = <<>>
                 /\ UNCHANGED <<files, toolLog>>
                 /\ IF L.site = "reject"
                    THEN /\ RaiseInTry(r, streamBusy[r])
                         /\ UNCHANGED streamQ
                    ELSE AfterFallback(r, L, NoResult)
            [] kind = "raises" ->
                 /\ actions = <<>>
                 /\ UNCHANGED <<files, toolLog, streamQ>>
                 /\ RaiseInTry(r, streamBusy[r])
    /\ UNCHANGED <<must_cancel, streamBusy, waiter, cancel_accepted, restarts, pin, store, sinkRaised>>

\* ------------------------------------------------------------ restart
\* a reload that repairs the runs saved as running and forgets the queued ones
_load_persisted_state_running_only(blob) ==
    LET R == [r \in RunIds |->
                 IF blob.runs[r].exists /\ blob.runs[r].status = "running"
                 THEN [blob.runs[r] EXCEPT !.status = "interrupted", !.error = "Interrupted"]
                 ELSE blob.runs[r]]
        S == [s \in SessionIds |->
                 LET a == blob.sessions[s].active_run_id
                 IN  IF a # NoRun /\ (~R[a].exists \/ R[a].status \in Terminal)
                     THEN [blob.sessions[s] EXCEPT !.active_run_id = NoRun]
                     ELSE blob.sessions[s]]
    IN  [sessions |-> S, runs |-> R]

\* _load_persisted_state: the sessions and runs of the saved blob, with queued
\* and running runs turned into interrupted ones and dangling pointers cleared
_load_persisted_state(blob) ==
    LET R == [r \in RunIds |->
                 IF blob.runs[r].exists /\ blob.runs[r].status \in {"queued", "running"}
                 THEN [blob.runs[r] EXCEPT !.status = "interrupted", !.error = "Interrupted"]
                 ELSE blob.runs[r]]
        S == [s \in SessionIds |->
                 LET a == blob.sessions[s].active_run_id
                 IN  IF a # NoRun /\ (~R[a].exists \/ R[a].status \in Terminal)
                     THEN [blob.sessions[s] EXCEPT !.active_run_id = NoRun]
                     ELSE blob.sessions[s]]
    IN  [sessions |-> S, runs |-> R]

\* the process dies and a new runtime is constructed on the same store
restart ==
    /\ restarts < MaxRestarts
    /\ LET loaded == _load_persisted_state(persisted)
       IN  /\ sessions' = loaded.sessions
           /\ runs' = loaded.runs
           /\ persisted' = IF loaded = persisted THEN persisted
                           ELSE _persist_state(loaded.sessions, loaded.runs)
    /\ task' = [r \in RunIds |-> "none"]
    /\ must_cancel' = [r \in RunIds |-> FALSE]
    /\ loc' = [r \in RunIds |-> InitLoc]
    /\ streamQ' = [r \in RunIds |-> <<>>]
    /\ streamBusy' = [r \in RunIds |-> FALSE]
    /\ waiter' = IdleWaiter
    /\ resp' = [NoResp EXCEPT !.op = "restart"]
    /\ cancel_accepted' = {}
    /\ restarts' = restarts + 1
    /\ UNCHANGED <<sinkLog, files, toolLog, pin, store, sinkRaised>>

\* ------------------------------------------------------- specification
\* the project holds one empty file; a file lies next to the project root
InitFiles ==
    [p \in Paths |-> IF p = APy THEN File(<<>>)
                     ELSE IF p = Outside THEN File(<<"x">>)
                     ELSE NoFile]

Init ==
    /\ sessions = [s \in SessionIds |-> NoSession]
    /\ runs = [r \in RunIds |-> EmptyRun]
    /\ task = [r \in RunIds |-> "none"]
    /\ must_cancel = [r \in RunIds |-> FALSE]
    /\ loc = [r \in RunIds |-> InitLoc]
    /\ streamQ = [r \in RunIds |-> <<>>]
    /\ streamBusy = [r \in RunIds |-> FALSE]
    /\ sinkLog = [r \in RunIds |-> <<>>]
    /\ files = InitFiles
    /\ toolLog = [r \in RunIds |-> <<>>]
    /\ store = TRUE
    /\ sinkRaised = {}
    /\ persisted = _persist_state(sessions, runs)
    /\ waiter = IdleWaiter
    /\ resp = NoResp
    /\ cancel_accepted = {}
    /\ restarts = 0
    /\ pin = 0

\* one step of the runtime: an API call, a step of a run's task or of one of its
\* stream event tasks.  R: the run ids in use, C: the tool calls the model may
\* ask for, T: how many of them in one run, F: how many fallback replies the
\* model gives in one run, A, O, V, Q: the arguments start_prompt is called
\* with, D: the events a reply can be streamed with, X: what the sink may do.
Step(R, C, T, F, A, O, V, Q, D, X) ==
    \/ \E s \in SessionIds : create_session(s)
    \/ \E s \in SessionIds, a \in A, o \in O, v \in V, q \in Q :
          /\ \E r \in R : ~runs[r].exists
          /\ start_prompt(s, a, o, v, q)
    \/ \E r \in R : task_start(r)
    \/ \E r \in R, x \in X : emit_started_return(r, x)
    \/ \E r \in R, ok \in BOOLEAN : prepare_return(r, ok)
    \/ \E r \in R, k \in {"tool_calls", "no_tool_calls", "rejected", "raises"},
          c \in {<<>>} \cup {<<x>> : x \in C}, d \in D :
          /\ k = "tool_calls" => loc[r].total_tool_calls + Len(c) <= T
          /\ model_return(r, k, c, d)
    \/ \E r \in R, k \in {"reply", "request_failed", "raises"},
          c \in {<<>>} \cup {<<x>> : x \in C} :
          /\ k = "reply" => loc[r].fb_replies < F
          /\ fallback_return(r, k, c)
    \/ \E r \in R : drain_done(r)
    \/ \E r \in R : verify_return(r)
    \/ \E r \in R, x \in X : emit_verified_return(r, x)
    \/ \E r \in R, x \in X : final_emit_return(r, x)
    \/ \E r \in R : handler_drain_done(r)
    \/ \E r \in R, b \in BOOLEAN, x \in X : deliver_stream(r, b, x)
    \/ \E r \in R, x \in X : sink_return(r, x)

\* the other API calls, the delivery of a cancellation and the restart
Control ==
    \/ \E s \in SessionIds, r \in RunIds \cup {NoRun} : cancel_run(s, r)
    \/ \E r \in RunIds : wait_run_call(r)
    \/ wait_run_wake
    \/ wait_run_timeout
    \/ \E r \in RunIds : deliver_cancel(r)
    \/ restart

\* the runtime specification: every run id, runs that only read the workspace
Next ==
    \/ Step(RunIds, {ReadCall}, MaxToolCalls, MaxFallbackReplies, {TRUE}, {NoPolicy},
            {MaxVerify}, {FALSE}, {<<>>}, {"returns"})
    \/ Control

Spec == Init /\ [][Next]_vars

\* the task-loop specification: one run, never cancelled, every tool call,
\* policy and mode
NextLoop ==
    Step({1}, ToolCalls, MaxToolCalls + 1, FALLBACK_REPAIR_ATTEMPTS + 1, BOOLEAN, Overrides,
         0..MaxVerify, BOOLEAN, {<<>>}, {"returns"})

SpecLoop == Init /\ [][NextLoop]_vars

\* the event specification: one run, never cancelled, whose replies are
\* streamed with or without text and reasoning
Deltas == {<<>>, <<AssistantDelta>>, <<ReasoningDelta>>, <<ReasoningDelta, AssistantDelta>>}

NextEvents ==
    Step({1}, {ReadCall}, MaxToolCalls + 1, MaxFallbackReplies, {TRUE}, {NoPolicy},
         0..MaxVerify, BOOLEAN, Deltas, {"returns"})

SpecEvents == Init /\ [][NextEvents]_vars

\* the server specification: run_protocol_server constructs the runtime as
\* AgentProtocolRuntime(runtime), without a store; one run, which may be
\* cancelled and waited for, and the restart of the process
InitServer ==
    /\ sessions = [s \in SessionIds |-> NoSession]
    /\ runs = [r \in RunIds |-> EmptyRun]
    /\ task = [r \in RunIds |-> "none"]
    /\ must_cancel = [r \in RunIds |-> FALSE]
    /\ loc = [r \in RunIds |-> InitLoc]
    /\ streamQ = [r \in RunIds |-> <<>>]
    /\ streamBusy = [r \in RunIds |-> FALSE]
    /\ sinkLog = [r \in RunIds |-> <<>>]
    /\ files = InitFiles
    /\ toolLog = [r \in RunIds |-> <<>>]
    /\ store = FALSE
    /\ sinkRaised = {}
    /\ persisted = [sessions |-> sessions, runs |-> runs]
    /\ waiter = IdleWaiter
    /\ resp = NoResp
    /\ cancel_accepted = {}
    /\ restarts = 0
    /\ pin = 0

NextServer ==
    \/ Step({1}, {ReadCall}, MaxToolCalls, MaxFallbackReplies, {TRUE}, {NoPolicy},
            {MaxVerify}, {FALSE}, {<<>>}, {"returns"})
    \/ Control

SpecServer == InitServer /\ [][NextServer]_vars

\* the sink specification: one run, which may be cancelled and waited for, and
\* whose sink may raise on any event it is called with
NextSink ==
    \/ Step({1}, {ReadCall}, MaxToolCalls, MaxFallbackReplies, {TRUE}, {NoPolicy},
            {MaxVerify}, {FALSE}, {<<>>}, SinkOutcomes)
    \/ Control

SpecSink == Init /\ [][NextSink]_vars

\* ------------------------------------- the policy-resolution specification
\* raw policy fields, as a session's metadata or a prompt's override can hold them
RawLists ==
    {Missing, List({}), List({"read_file"}), List({" delete_file ", "   "}),
     List({"read_file", "delete_file"}), Str("delete_file")}
RawFlags == {Missing, Bool(TRUE), Bool(FALSE), Str("")}
RawDefaults == {Missing, Str("deny"), Str(" Deny "), Str("approve"), Str("ask"), Bool(TRUE)}
ToolNames == {"read_file", "delete_file", "write_file", " delete_file ", "list_files"}

\* the session's metadata policy holds the lists, the override any field
PolicyInputs ==
    [meta : [allow_tools : RawLists, deny_tools : {Missing, List({"delete_file"})},
             deny_mutations : {Missing, Bool(TRUE)}, default_decision : {Missing, Str("deny")}],
     override : [allow_tools : {Missing, List({"read_file"})}, deny_tools : RawLists,
                 deny_mutations : RawFlags, default_decision : RawDefaults],
     tool_name : ToolNames]

InitPolicy ==
    /\ sessions = [s \in SessionIds |-> NoSession]
    /\ runs = [r \in RunIds |-> EmptyRun]
    /\ task = [r \in RunIds |-> "none"]
    /\ must_cancel = [r \in RunIds |-> FALSE]
    /\ loc = [r \in RunIds |-> InitLoc]
    /\ streamQ = [r \in RunIds |-> <<>>]
    /\ streamBusy = [r \in RunIds |-> FALSE]
    /\ sinkLog = [r \in RunIds |-> <<>>]
    /\ files = InitFiles
    /\ toolLog = [r \in RunIds |-> <<>>]
    /\ store = TRUE
    /\ sinkRaised = {}
    /\ persisted = _persist_state(sessions, runs)
    /\ waiter = IdleWaiter
    /\ resp = NoResp
    /\ cancel_accepted = {}
    /\ restarts = 0
    /\ \E i \in PolicyInputs : pin = [stage |-> "input", in |-> i]

\* start_prompt resolves the run's policy from the metadata and the override
resolve_policy ==
    /\ pin.stage = "input"
    /\ pin' = [stage |-> "resolved", in |-> pin.in,
               policy |-> _resolve_tool_policy(pin.in.meta, pin.in.override)]
    /\ UNCHANGED <<sessions, runs, task, must_cancel, loc, streamQ, streamBusy, sinkLog,
                   files, toolLog, persisted, waiter, resp, cancel_accepted, restarts, store, sinkRaised>>

\* the policy callback of the run is asked about a tool name
decide_policy ==
    /\ pin.stage = "resolved"
    /\ pin' = [stage |-> "decided", in |-> pin.in, policy |-> pin.policy,
               decision |-> _decide_tool_policy(pin.policy, pin.in.tool_name)]
    /\ UNCHANGED <<sessions, runs, task, must_cancel, loc, streamQ, streamBusy, sinkLog,
                   files, toolLog, persisted, waiter, resp, cancel_accepted, restarts, store, sinkRaised>>

NextPolicy == resolve_policy \/ decide_policy

SpecPolicy == InitPolicy /\ [][NextPolicy]_vars

\* ------------------------------------------ the workspace-tools specification
\* the runtime with no session and no run, as the workspace specifications keep it
RuntimeIdle ==
    /\ sessions = [s \in SessionIds |-> NoSession]
    /\ runs = [r \in RunIds |-> EmptyRun]
    /\ task = [r \in RunIds |-> "none"]
    /\ must_cancel = [r \in RunIds |-> FALSE]
    /\ loc = [r \in RunIds |-> InitLoc]
    /\ streamQ = [r \in RunIds |-> <<>>]
    /\ streamBusy = [r \in RunIds |-> FALSE]
    /\ sinkLog = [r \in RunIds |-> <<>>]
    /\ toolLog = [r \in RunIds |-> <<>>]
    /\ store = TRUE
    /\ sinkRaised = {}
    /\ persisted = _persist_state(sessions, runs)
    /\ waiter = IdleWaiter
    /\ resp = NoResp
    /\ cancel_accepted = {}
    /\ restarts = 0

RuntimeUnchanged ==
    UNCHANGED <<sessions, runs, task, must_cancel, loc, streamQ, streamBusy, sinkLog,
                toolLog, persisted, waiter, resp, cancel_accepted, restarts, store, sinkRaised>>

\* what the files of a project can hold on disk
FileTexts == {<<>>, <<"x">>, <<"y">>, <<"x", "LF">>, <<"x", "CR", "LF">>}

\* the projects: a.py is absent, a directory or a file; sub is absent, a file,
\* or a directory with or without b.py; out.txt lies outside the root
Workspaces ==
    {[p \in Paths |-> IF p = APy THEN a
                     ELSE IF p = SubDir THEN s[1]
                     ELSE IF p = SubBPy THEN s[2]
                     ELSE File(<<"x">>)] :
        a \in {NoFile, Directory} \cup {File(t) : t \in FileTexts},
        s \in {<<NoFile, NoFile>>, <<File(<<"x">>), NoFile>>, <<Directory, NoFile>>,
               <<Directory, File(<<"x">>)>>}}

\* the paths, contents and snippets a caller passes, as written by the caller
RawPaths ==
    {<<"a.py">>, <<"SP", "a.py", "SP">>, <<"sub", "..", "a.py">>, <<"sub", "b.py">>,
     <<"sub">>, <<"..", "out.txt">>, <<"/", "out.txt">>, <<"/", "root", "a.py">>,
     <<"sub", "..", "..", "out.txt">>, <<>>, <<".">>}
RawContents == {<<>>, <<"SP">>, <<"x">>, <<"y">>, <<"x", "LF">>, <<"SP", "x">>}
RawFinds == {<<>>, <<"x">>}
RawReplaces == {Missing, Str(<<>>), Str(<<"y">>), Str(<<"x">>)}

ToolInputs ==
    {[NoArgs EXCEPT !.name = n, !.path = p, !.find = f] :
        n \in {"list_files", "read_file", "search_in_files", "delete_file", "move_file"},
        p \in RawPaths, f \in RawFinds}
    \cup {[NoArgs EXCEPT !.name = "write_file", !.path = p, !.content = c,
                         !.allow_overwrite = o] :
            p \in RawPaths, c \in RawContents, o \in BOOLEAN}
    \cup {[NoArgs EXCEPT !.name = "replace_in_file", !.path = p, !.find = f,
                         !.replace = r, !.count = k] :
            p \in RawPaths, f \in RawFinds, r \in RawReplaces, k \in {0, 1}}

InitTools ==
    /\ RuntimeIdle
    /\ files \in Workspaces
    /\ \E c \in ToolInputs : pin = [stage |-> "input", call |-> c]

\* WorkspaceTools.execute is called once, in apply or in preview mode
run_tool(auto_apply) ==
    /\ pin.stage = "input"
    /\ LET res == execute(files, pin.call, auto_apply)
       IN  /\ files' = res.fs
           /\ pin' = [stage |-> "executed", call |-> pin.call, auto_apply |-> auto_apply,
                      before |-> files, res |-> res]
    /\ RuntimeUnchanged

\* the apply_args of a preview are executed in apply mode, as
\* apply_pending_changes executes the apply_args of a pending change
apply_previewed ==
    /\ pin.stage = "executed"
    /\ ~pin.auto_apply
    /\ pin.res.ok
    /\ pin.res.previewed
    /\ LET res == execute(files, pin.res.apply_args, TRUE)
       IN  /\ files' = res.fs
           /\ pin' = [stage |-> "applied", call |-> pin.call, auto_apply |-> FALSE,
                      before |-> pin.before, res |-> pin.res, applied |-> res]
    /\ RuntimeUnchanged

NextTools ==
    \/ \E auto_apply \in BOOLEAN : run_tool(auto_apply)
    \/ apply_previewed

SpecTools == InitTools /\ [][NextTools]_vars

\* ------------------------------------- pending and applied change sets
PENDING_CHANGE_SET_LIMIT == 64
APPLIED_CHANGE_SET_LIMIT == 64

\* AgentRuntime._resolve_workspace_path: ok is false when the path is blank or
\* escapes the root (ValueError)
_resolve_workspace_path(relative_path) ==
    LET clean == StripText(relative_path)
        candidate == Resolve(clean)
    IN  [ok |-> clean # <<>> /\ IsPrefix(project_root, candidate), path |-> candidate]

\* AgentRuntime._snapshot_file_state of a path that is not blank
_snapshot_file_state(fs, path) ==
    LET r == _resolve_workspace_path(path)
        existed == r.ok /\ is_file(fs, r.path)
    IN  [ok |-> r.ok, path |-> StripText(path), existed |-> existed,
         content |-> IF existed THEN read_text(fs[r.path].bytes) ELSE <<>>]

\* a registry (a dict in insertion order) with one more set, the oldest set
\* evicted when the registry has grown over the limit
Registered(registry, id, items, limit) ==
    LET grown == Append(registry, [id |-> id, items |-> items])
    IN  IF Len(grown) > limit /\ Head(grown).id # id THEN Tail(grown) ELSE grown

\* a registration that evicts the set just registered when the registry is full
_register_pending_changes_drop_newest(registry, id, pending_changes) ==
    IF Len(registry) >= PENDING_CHANGE_SET_LIMIT THEN registry
    ELSE Append(registry, [id |-> id, items |-> pending_changes])

\* AgentRuntime._register_pending_changes, for a list that is not empty
_register_pending_changes(registry, id, pending_changes) ==
    Registered(registry, id, pending_changes, PENDING_CHANGE_SET_LIMIT)

\* AgentRuntime._register_applied_change_set
_register_applied_change_set(registry, id, snapshots) ==
    Registered(registry, id, snapshots, APPLIED_CHANGE_SET_LIMIT)

\* dict.pop(id, None): the set of that id, if any, and the registry without it
Has(registry, id) == \E i \in 1..Len(registry) : registry[i].id = id
Get(registry, id) == registry[CHOOSE i \in 1..Len(registry) : registry[i].id = id].items
Without(registry, id) == SelectSeq(registry, LAMBDA e : e.id # id)

\* the pending changes a task collects from the previews of its tool calls
RECURSIVE PreviewChanges(_, _)
PreviewChanges(fs, calls) ==
    IF calls = <<>> THEN <<>>
    ELSE _extract_pending_change(_execute_tool_call(fs, Head(calls), FALSE, NoPolicy))
         \o PreviewChanges(fs, Tail(calls))

\* the body of "for change in pending_changes" of apply_pending_changes: the
\* file of each change is snapshotted once, before its first change is executed
RECURSIVE ApplyChanges(_, _)
ApplyChanges(changes, st) ==
    IF changes = <<>> \/ st.raised THEN st
    ELSE LET change == Head(changes)
             args == change.apply_args
             path_hint == IF StripText(args.path) # <<>> THEN StripText(args.path)
                          ELSE StripText(change.path)
             fresh == path_hint # <<>>
                      /\ \A i \in 1..Len(st.snapshots) : st.snapshots[i].path # path_hint
             Executed(snapshot, res) ==
                 IF fresh /\ ~snapshot.ok
                 THEN [st EXCEPT !.raised = TRUE]
                 ELSE ApplyChanges(Tail(changes),
                        [fs |-> res.fs,
                         snapshots |-> IF fresh THEN Append(st.snapshots, snapshot)
                                       ELSE st.snapshots,
                         applied_count |-> st.applied_count
                                           + (IF res.ok /\ res.changed THEN 1 ELSE 0),
                         errors |-> st.errors + (IF res.ok THEN 0 ELSE 1),
                         raised |-> FALSE])
         IN  IF change.operation \notin MUTATING_TOOL_NAMES
               THEN ApplyChanges(Tail(changes), st)
             ELSE Executed(_snapshot_file_state(st.fs, path_hint),
                           execute(st.fs, [args EXCEPT !.name = change.operation], TRUE))

\* the body of "for item in snapshots" of undo_applied_changes
RECURSIVE UndoSnapshots(_, _)
UndoSnapshots(snapshots, st) ==
    IF snapshots = <<>> THEN st
    ELSE LET item == Head(snapshots)
             r == _resolve_workspace_path(item.path)
             target == r.path
             failed == [st EXCEPT !.errors = @ + 1]
             done(fs) == [fs |-> fs, undone_files |-> st.undone_files \cup {item.path},
                          errors |-> st.errors]
         IN  UndoSnapshots(Tail(snapshots),
                IF StripText(item.path) = <<>> THEN st
                ELSE IF ~r.ok THEN failed
                ELSE IF item.existed
                  THEN IF (\E p \in Parents(target) : is_file(st.fs, p))
                          \/ Entry(st.fs, target).kind = "dir"
                       THEN failed
                       ELSE done([l \in DOMAIN st.fs |->
                                    IF l = target THEN File(write_text(item.content))
                                    ELSE IF l \in Parents(target) THEN Directory
                                    ELSE st.fs[l]])
                ELSE IF ~exists(st.fs, target) THEN done(st.fs)
                ELSE IF is_file(st.fs, target) THEN done(Put(st.fs, target, NoFile))
                ELSE failed)

\* the outcome of the last call on the change sets
NoCall ==
    [op |-> "none", id |-> 0, found |-> FALSE, out_id |-> 0, before |-> <<>>,
     touched |-> {}, follows_apply |-> FALSE]

\* a task ends in preview mode: its pending changes are registered under a new id
register_pending(calls) ==
    /\ pin.stage = "changes"
    /\ LET pending_changes == PreviewChanges(files, calls)
           id == pin.next_id + 1
       IN  /\ pending_changes # <<>>
           /\ pin' = [pin EXCEPT
                        !.pending = _register_pending_changes(@, id, pending_changes),
                        !.next_id = id,
                        !.regs = @ + 1,
                        !.last = [NoCall EXCEPT !.op = "register", !.out_id = id]]
    /\ UNCHANGED files
    /\ RuntimeUnchanged

\* AgentRuntime.apply_pending_changes; id 0 is a blank id
apply_pending_changes(pending_id) ==
    /\ pin.stage = "changes"
    /\ IF pending_id = 0 \/ ~Has(pin.pending, pending_id)
       THEN /\ pin' = [pin EXCEPT !.ops = @ + 1,
                                  !.last = [NoCall EXCEPT !.op = "apply", !.id = pending_id]]
            /\ UNCHANGED files
       ELSE LET id == pin.next_id + 1
                Applied(st, registers) ==
                    /\ files' = st.fs
                    /\ pin' = [pin EXCEPT
                                 !.pending = Without(@, pending_id),
                                 !.applied = IF registers
                                             THEN _register_applied_change_set(@, id, st.snapshots)
                                             ELSE @,
                                 !.next_id = IF registers THEN id ELSE @,
                                 !.ops = @ + 1,
                                 !.last = [op |-> "apply", id |-> pending_id, found |-> TRUE,
                                           out_id |-> IF registers THEN id ELSE 0,
                                           before |-> files,
                                           touched |-> {_resolve_workspace_path(
                                                            st.snapshots[i].path).path :
                                                        i \in 1..Len(st.snapshots)},
                                           follows_apply |-> FALSE]]
                Outcome(st) ==
                    Applied(st, ~st.raised /\ st.applied_count > 0 /\ st.snapshots # <<>>)
            IN  Outcome(ApplyChanges(Get(pin.pending, pending_id),
                                     [fs |-> files, snapshots |-> <<>>, applied_count |-> 0,
                                      errors |-> 0, raised |-> FALSE]))
    /\ RuntimeUnchanged

\* AgentRuntime.discard_pending_changes
discard_pending_changes(pending_id) ==
    /\ pin.stage = "changes"
    /\ pin' = [pin EXCEPT !.pending = Without(@, pending_id),
                          !.ops = @ + 1,
                          !.last = [NoCall EXCEPT !.op = "discard_pending", !.id = pending_id,
                                                  !.found = Has(pin.pending, pending_id)]]
    /\ UNCHANGED files
    /\ RuntimeUnchanged

\* AgentRuntime.discard_applied_changes
discard_applied_changes(applied_change_id) ==
    /\ pin.stage = "changes"
    /\ pin' = [pin EXCEPT !.applied = Without(@, applied_change_id),
                          !.ops = @ + 1,
                          !.last = [NoCall EXCEPT !.op = "discard_applied",
                                                  !.id = applied_change_id,
                                                  !.found = Has(pin.applied, applied_change_id)]]
    /\ UNCHANGED files
    /\ RuntimeUnchanged

\* AgentRuntime.undo_applied_changes; follows_apply says that the call before
\* this one was the apply that returned the id
undo_applied_changes(applied_change_id) ==
    /\ pin.stage = "changes"
    /\ IF applied_change_id = 0 \/ ~Has(pin.applied, applied_change_id)
       THEN /\ pin' = [pin EXCEPT !.ops = @ + 1,
                                  !.last = [NoCall EXCEPT !.op = "undo",
                                                          !.id = applied_change_id]]
            /\ UNCHANGED files
       ELSE LET follows == pin.last.op = "apply" /\ pin.last.out_id = applied_change_id
            IN  /\ files' = UndoSnapshots(Get(pin.applied, applied_change_id),
                                          [fs |-> files, undone_files |-> {}, errors |-> 0]).fs
                /\ pin' = [pin EXCEPT
                             !.applied = Without(@, applied_change_id),
                             !.ops = @ + 1,
                             !.last = [op |-> "undo", id |-> applied_change_id,
                                       found |-> TRUE, out_id |-> 0,
                                       before |-> IF follows THEN pin.last.before ELSE files,
                                       touched |-> IF follows THEN pin.last.touched ELSE {},
                                       follows_apply |-> follows]]
    /\ RuntimeUnchanged

\* the ids a caller passes: a blank one, the first ever drawn, the newest, the
\* oldest pending one, and the ids the last call was given and returned
TriedIds ==
    {0, 1, pin.next_id, pin.last.id, pin.last.out_id}
    \cup (IF pin.pending = <<>> THEN {} ELSE {Head(pin.pending).id})

\* the calls on the change sets: S the tool calls of a task, N how many sets
\* are registered, K how many other calls are made
ChangesStep(S, N, K) ==
    \/ \E calls \in S : pin.regs < N /\ register_pending(calls)
    \/ \E id \in TriedIds : pin.ops < K /\ apply_pending_changes(id)
    \/ \E id \in TriedIds : pin.ops < K /\ discard_pending_changes(id)
    \/ \E id \in TriedIds : pin.ops < K /\ discard_applied_changes(id)
    \/ \E id \in TriedIds : pin.ops < K /\ undo_applied_changes(id)

NoChangeSets ==
    [stage |-> "changes", pending |-> <<>>, applied |-> <<>>, next_id |-> 0, regs |-> 0,
     ops |-> 0, last |-> NoCall]

\* the change-set specification: a few tasks that preview writes, replacements
\* and deletions in one project, and the calls that apply, undo and discard
MaxChangeSets == 2
MaxChangeCalls == 3

ChangeWorkspaces ==
    {w \in Workspaces : w[SubDir] = NoFile /\ w[APy].kind # "dir"}

ChangeCalls ==
    {[WriteCall EXCEPT !.allow_overwrite = TRUE],
     [WriteCall EXCEPT !.path = <<"sub", "b.py">>],
     [NoArgs EXCEPT !.name = "replace_in_file", !.path = <<"a.py">>, !.find = <<"x">>,
                    !.replace = Str(<<"y">>)],
     DeleteCall, ReadCall}

ChangeTasks == {<<c>> : c \in ChangeCalls} \cup {<<c, d>> : c, d \in ChangeCalls}

InitChanges ==
    /\ RuntimeIdle
    /\ files \in ChangeWorkspaces
    /\ pin = NoChangeSets

NextChanges == ChangesStep(ChangeTasks, MaxChangeSets, MaxChangeCalls)

SpecChanges == InitChanges /\ [][NextChanges]_vars

\* the registry specification: one project, tasks that all preview the same
\* write, registered until the registry is over its limit
MaxRegistryCalls == 2

InitRegistry ==
    /\ RuntimeIdle
    /\ files = InitFiles
    /\ pin = NoChangeSets

NextRegistry ==
    ChangesStep({<<WriteCall>>}, PENDING_CHANGE_SET_LIMIT + 2, MaxRegistryCalls)

SpecRegistry == InitRegistry /\ [][NextRegistry]_vars

\* ------------------------------------------- the agent-task specification
\* run_agent_task and _fallback_agent_to_message on their own: the locals of
\* the coroutine are kept in pin, every request to the model succeeds, and the
\* runtime around the task is idle.
UnknownCall == [NoArgs EXCEPT !.name = "move_file", !.path = <<"a.py">>]
NoPathCall == [NoArgs EXCEPT !.name = "read_file"]
EscapingCall == [WriteCall EXCEPT !.path = <<"..", "out.txt">>]
MissingFileCall == [NoArgs EXCEPT !.name = "read_file", !.path = <<"sub", "b.py">>]
NamelessCall == [NoArgs EXCEPT !.path = <<"a.py">>]
OverwriteCall == [WriteCall EXCEPT !.content = <<"y">>]
PaddedWriteCall == [WriteCall EXCEPT !.path = <<"SP", "a.py">>, !.content = <<"x", "LF">>]
UnixWriteCall == [WriteCall EXCEPT !.content = <<"x", "LF", "y">>]
NestedWriteCall == [WriteCall EXCEPT !.path = <<"sub", "b.py">>]

NoTaskResult ==
    [present |-> FALSE, via |-> "none", tool_steps |-> 0, applied_files |-> {},
     pending_changes |-> <<>>, pending_id |-> 0]

NoTask ==
    [stage |-> "task", site |-> "loop", auto_apply |-> TRUE, requires_changes |-> FALSE,
     step |-> 0, total_tool_calls |-> 0, applied_files |-> {}, pending_changes |-> <<>>,
     calls |-> <<>>, tool_messages |-> <<>>, tool_results |-> 0,
     attempt |-> 0, cum_results |-> 0, cum_applied |-> {}, cum_pending |-> <<>>,
     result |-> NoTaskResult, pending |-> <<>>, next_id |-> 0, before |-> <<>>,
     step_before |-> <<>>]

\* the run the task is executed for
TaskRun(p) ==
    [EmptyRun EXCEPT !.auto_apply = p.auto_apply, !.requires_changes = p.requires_changes]

\* "pending_id = self._register_pending_changes(...); return {...}": the
\* result of the task, its pending changes registered as one set if there are any
task_result(p, via, tool_steps, applied_files, pending_changes) ==
    [p EXCEPT !.site = "returned",
              !.result = [present |-> TRUE, via |-> via, tool_steps |-> tool_steps,
                          applied_files |-> applied_files,
                          pending_changes |-> pending_changes,
                          pending_id |-> IF pending_changes = <<>> THEN 0 ELSE p.next_id + 1],
              !.pending = IF pending_changes = <<>> THEN @
                          ELSE _register_pending_changes(@, p.next_id + 1, pending_changes),
              !.next_id = IF pending_changes = <<>> THEN @ ELSE @ + 1]

\* the result after "for step_idx in range(_AGENT_MAX_STEPS)" ran out
timeout_result_without_changes(p) ==
    task_result(p, "timeout", p.total_tool_calls, {}, <<>>)

timeout_result(p) ==
    task_result(p, "timeout", p.total_tool_calls, p.applied_files, p.pending_changes)

\* the result of the branch "if not tool_calls" that ends the loop
answer_result(p) ==
    task_result(p, "answer", p.total_tool_calls, p.applied_files, p.pending_changes)

\* one step of the loop: the model's reply carries tool_calls
task_model_reply(tool_calls) ==
    /\ pin.stage = "task" /\ pin.site = "loop" /\ pin.step < AGENT_MAX_STEPS
    /\ LET p == pin
           Reply(st) ==
               [p EXCEPT !.step = @ + 1,
                         !.total_tool_calls = st.total_tool_calls,
                         !.applied_files = st.applied_files,
                         !.pending_changes = st.pending_changes,
                         !.calls = tool_calls,
                         !.tool_messages = st.messages,
                         !.step_before = files]
           StepDone(st, p1) ==
               /\ files' = st.fs
               /\ pin' = IF p1.step < AGENT_MAX_STEPS THEN p1 ELSE timeout_result(p1)
           AfterCalls(st) == StepDone(st, Reply(st))
       IN  IF tool_calls = <<>>
           THEN /\ UNCHANGED files
                /\ IF p.total_tool_calls = 0
                      \/ (p.requires_changes /\ p.applied_files = {}
                          /\ p.pending_changes = <<>>)
                   THEN pin' = [p EXCEPT !.site = "fallback", !.calls = <<>>,
                                         !.tool_messages = <<>>]
                   ELSE pin' = answer_result([p EXCEPT !.calls = <<>>,
                                                       !.tool_messages = <<>>])
           ELSE AfterCalls(RunToolCalls(tool_calls, TaskRun(p),
                    [fs |-> files, total_tool_calls |-> p.total_tool_calls,
                     applied_files |-> p.applied_files,
                     pending_changes |-> p.pending_changes,
                     log |-> <<>>, messages |-> <<>>, events |-> <<>>]))
    /\ RuntimeUnchanged

\* what run_agent_task does with the value _fallback_agent_to_message returned:
\* a fallback with an effect is the result, otherwise the loop's own answer is
task_after_fallback(p, has_fallback) ==
    IF has_fallback /\ (p.cum_results > 0 \/ p.cum_applied # {} \/ p.cum_pending # <<>>)
    THEN task_result(p, "fallback", p.cum_results, p.cum_applied, p.cum_pending)
    ELSE answer_result(p)

\* one round of "for attempt in range(_FALLBACK_REPAIR_ATTEMPTS + 1)": the
\* reply to send_message carries the parsed actions
task_fallback_reply(kind, actions) ==
    /\ pin.stage = "task" /\ pin.site = "fallback"
    /\ LET p == [pin EXCEPT !.calls = actions, !.step_before = files]
           Locals(st) ==
               [p EXCEPT !.cum_results = Min(FALLBACK_RESULT_HISTORY, @ + st.tool_results),
                         !.cum_applied = @ \cup st.applied_files,
                         !.cum_pending = AddPending(@, st.pending_changes),
                         !.tool_results = st.tool_results]
           ReplyDone(st, p1) ==
               LET skipped == /\ actions # <<>>
                              /\ p.requires_changes
                              /\ ~st.has_mutating_actions
                              /\ p.attempt < FALLBACK_REPAIR_ATTEMPTS
                   has_effect == st.applied_files # {} \/ st.pending_changes # <<>>
               IN  /\ files' = st.fs
                   /\ IF skipped
                      THEN pin' = [p EXCEPT !.attempt = @ + 1,
                                            !.tool_results = st.tool_results]
                      ELSE IF has_effect \/ p.attempt >= FALLBACK_REPAIR_ATTEMPTS
                      THEN pin' = task_after_fallback(p1, TRUE)
                      ELSE pin' = [p1 EXCEPT !.attempt = @ + 1]
           AfterActions(st) == ReplyDone(st, Locals(st))
       IN  CASE kind = "reply" ->
                 AfterActions(RunFallbackActions(actions, TaskRun(p),
                     [fs |-> files, tool_results |-> 0, applied_files |-> {},
                      pending_changes |-> <<>>, has_mutating_actions |-> FALSE,
                      log |-> <<>>]))
            [] kind = "request_failed" ->
                 /\ actions = <<>>
                 /\ UNCHANGED files
                 /\ pin' = task_after_fallback(p, FALSE)
    /\ RuntimeUnchanged

\* the replies of the model: nothing, one call, or a failing call and a call
\* after it
FailingCalls ==
    {UnknownCall, NoPathCall, EscapingCall, MissingFileCall, NamelessCall, OverwriteCall,
     NestedWriteCall}

\* (in the loop a write below sub is asked for only where it fails in the
\* executor: sub is a file and the call is applied)
TaskReplies ==
    {<<>>, <<ReadCall>>, <<WriteCall>>}
    \cup {<<f, WriteCall>> : f \in FailingCalls \ {NestedWriteCall}}
    \cup (IF pin.auto_apply /\ is_file(files, SubDir)
          THEN {<<NestedWriteCall, WriteCall>>} ELSE {})

FallbackReplies ==
    {<<>>, <<ReadCall>>, <<WriteCall, WriteCall>>, <<WriteCall, PaddedWriteCall>>,
     <<WriteCall, DeleteCall>>, <<OverwriteCall, WriteCall, ReadCall>>, <<UnixWriteCall>>}
    \cup {<<f, DeleteCall>> : f \in FailingCalls}

TaskWorkspaces ==
    {w \in Workspaces : /\ w[SubDir] = NoFile
                        /\ w[APy] \in {NoFile, File(<<>>), File(<<"x">>)}}
    \cup {[w \in Paths |-> IF w = APy THEN File(<<"x", "CR", "LF", "y">>) ELSE InitFiles[w]],
          [w \in Paths |-> IF w = SubDir THEN File(<<"x">>) ELSE InitFiles[w]]}

InitTask ==
    /\ RuntimeIdle
    /\ files \in TaskWorkspaces
    /\ \E a, q \in BOOLEAN :
          pin = [NoTask EXCEPT !.auto_apply = a, !.requires_changes = q,
                               !.before = files, !.step_before = files]

NextTask ==
    \/ \E c \in TaskReplies : task_model_reply(c)
    \/ \E k \in {"reply", "request_failed"}, c \in FallbackReplies :
          task_fallback_reply(k, c)

SpecTask == InitTask /\ [][NextTask]_vars

\* ------------------------------------------------- the wait specification
\* the wait specification: one run, which may be cancelled and waited for with
\* a timeout; pin holds the runs whose wait has timed out
InitWait ==
    /\ RuntimeIdle
    /\ files = InitFiles
    /\ pin = {}

NextWait ==
    \/ Step({1}, {ReadCall}, MaxToolCalls, MaxFallbackReplies, {TRUE}, {NoPolicy},
            {MaxVerify}, {FALSE}, {<<>>}, {"returns"})
    \/ \E s \in SessionIds, r \in RunIds \cup {NoRun} : cancel_run(s, r)
    \/ \E r \in RunIds : wait_run_call(r)
    \/ wait_run_wake
    \/ wait_run_timeout_noted
    \/ \E r \in RunIds : deliver_cancel(r)

SpecWait == InitWait /\ [][NextWait]_vars

\* ------------------------------------------- the run-retention specification
\* The run table of start_prompt with the retention cap scaled down: sessions
\* start prompts one after the other, runs finish, and every start_prompt
\* prunes the table.  pin holds the tables.
MaxPruneRuns == 6
MaxPruneSessions == 2
MaxRetained == 2

PruneRunIds == 1..MaxPruneRuns
PruneSessionIds == 1..MaxPruneSessions

InitPrune ==
    /\ RuntimeIdle
    /\ files = InitFiles
    /\ pin = [stage |-> "prune",
              sessions |-> [s \in PruneSessionIds |-> [NoSession EXCEPT !.exists = TRUE]],
              runs |-> [r \in PruneRunIds |-> EmptyRun],
              before |-> [r \in PruneRunIds |-> EmptyRun],
              created |-> 0, last |-> "none"]

\* start_prompt on a session without a live run: the run is entered into the
\* table, made the session's active run, and the table is pruned
prune_start_prompt(s) ==
    /\ pin.stage = "prune"
    /\ pin.created < MaxPruneRuns
    /\ pin.sessions[s].active_run_id = NoRun
    /\ LET new == pin.created + 1
           run == [EmptyRun EXCEPT !.exists = TRUE, !.session_id = s, !.created_at = new]
           S1 == [pin.sessions EXCEPT ![s].active_run_id = new]
           R1 == [pin.runs EXCEPT ![new] = run]
       IN  pin' = [pin EXCEPT !.sessions = S1, !.before = R1,
                              !.runs = _prune_runs(R1, S1, MaxRetained),
                              !.created = new, !.last = "start_prompt"]
    /\ UNCHANGED files
    /\ RuntimeUnchanged

\* the run's task ends: status completed, and the finally block clears the
\* session's pointer
prune_run_ends(r) ==
    /\ pin.stage = "prune"
    /\ pin.runs[r].exists /\ pin.runs[r].status = "queued"
    /\ pin' = [pin EXCEPT !.runs[r].status = "completed",
                          !.sessions[pin.runs[r].session_id].active_run_id =
                               IF @ = r THEN NoRun ELSE @,
                          !.before = pin.runs, !.last = "run_ends"]
    /\ UNCHANGED files
    /\ RuntimeUnchanged

NextPrune ==
    \/ \E s \in PruneSessionIds : prune_start_prompt(s)
    \/ \E r \in PruneRunIds : prune_run_ends(r)

SpecPrune == InitPrune /\ [][NextPrune]_vars

\* ------------------------------------------------ the session specification
\* session.create, session.update and session.prompt of the JSON-RPC server on
\* one session.  A parameter is Missing (the key is not in params), PyNone
\* (JSON null), a string or a dict; a dict is a set of <<key, value>> pairs.
\* pin holds the session, the run table and the last call.
MaxSessionUpdates == 2

PyNone == [t |-> "none"]
Dict(pairs) == [t |-> "dict", v |-> pairs]

\* str(value or "").strip(), then "text or None"
_clean_optional_str(value) ==
    LET text == IF value.t = "str" THEN StripText(value.v) ELSE <<>>
    IN  IF text = <<>> THEN PyNone ELSE Str(text)

_optional_str(value) ==
    LET text == IF value.t = "str" THEN StripText(value.v) ELSE <<>>
    IN  IF text = <<>> THEN PyNone ELSE Str(text)

_nullable_optional_str(params, key) ==
    IF params[key] = Missing THEN PyNone
    ELSE IF params[key] = PyNone THEN Str(<<>>)
    ELSE _optional_str(params[key])

\* _nullable_metadata: "raise" stands for the JsonRpcError of a non-dict
_nullable_metadata(params, key) ==
    IF params[key] = Missing THEN PyNone
    ELSE IF params[key] = PyNone THEN Dict({})
    ELSE IF params[key].t # "dict" THEN [t |-> "raise"]
    ELSE params[key]

_metadata_or_empty(value) ==
    IF value \in {Missing, PyNone} THEN Dict({})
    ELSE IF value.t # "dict" THEN [t |-> "raise"]
    ELSE value

\* _normalize_metadata: keys are stripped, an empty key is dropped; the values
\* drawn are strings, which are kept
_normalize_metadata(value) ==
    IF value.t # "dict" THEN {}
    ELSE {<<StripText(kv[1]), kv[2]>> : kv \in {x \in value.v : StripText(x[1]) # <<>>}}

NoSessionState ==
    [exists |-> FALSE, model_id |-> PyNone, chat_id |-> PyNone, metadata |-> {},
     active_run_id |-> NoRun, updated_at |-> 0]

\* AgentProtocolRuntime.create_session
runtime_create_session(now, model_id, chat_id, metadata) ==
    [exists |-> TRUE, model_id |-> _clean_optional_str(model_id),
     chat_id |-> _clean_optional_str(chat_id), metadata |-> _normalize_metadata(metadata),
     active_run_id |-> NoRun, updated_at |-> now]

\* AgentProtocolRuntime.update_session: a field is assigned unless its
\* argument is None
runtime_update_session(session, now, model_id, chat_id, metadata) ==
    [session EXCEPT
        !.model_id = IF model_id # PyNone THEN _clean_optional_str(model_id) ELSE @,
        !.chat_id = IF chat_id # PyNone THEN _clean_optional_str(chat_id) ELSE @,
        !.metadata = IF metadata # PyNone THEN _normalize_metadata(metadata) ELSE @,
        !.updated_at = now]

NoParams == [model_id |-> Missing, chat_id |-> Missing, metadata |-> Missing]

InitSession ==
    /\ RuntimeIdle
    /\ files = InitFiles
    /\ pin = [stage |-> "session", session |-> NoSessionState, before |-> NoSessionState,
              runs |-> {}, runs_before |-> {}, saved |-> NoSessionState,
              op |-> "none", params |-> NoParams, out |-> "none", now |-> 0, updates |-> 0]

_handle_session_create(params) ==
    /\ pin.stage = "session" /\ ~pin.session.exists
    /\ LET metadata == _metadata_or_empty(params.metadata)
           called == [pin EXCEPT !.op = "session.create", !.params = params,
                                 !.before = pin.session, !.runs_before = pin.runs,
                                 !.now = @ + 1]
           created == runtime_create_session(pin.now + 1, _optional_str(params.model_id),
                                             _optional_str(params.chat_id), metadata)
       IN  pin' = IF metadata.t = "raise"
                  THEN [called EXCEPT !.out = "invalid_params", !.now = pin.now]
                  ELSE [called EXCEPT !.out = "ok", !.session = created, !.saved = created]
    /\ UNCHANGED files
    /\ RuntimeUnchanged

_handle_session_update(params) ==
    /\ pin.stage = "session" /\ pin.session.exists
    /\ pin.updates < MaxSessionUpdates
    /\ LET model_id == _nullable_optional_str(params, "model_id")
           chat_id == _nullable_optional_str(params, "chat_id")
           metadata == _nullable_metadata(params, "metadata")
           called == [pin EXCEPT !.op = "session.update", !.params = params,
                                 !.before = pin.session, !.runs_before = pin.runs,
                                 !.now = @ + 1, !.updates = @ + 1]
           updated == runtime_update_session(pin.session, pin.now + 1, model_id, chat_id,
                                             metadata)
       IN  pin' = IF metadata.t = "raise"
                  THEN [called EXCEPT !.out = "invalid_params"]
                  ELSE [called EXCEPT !.out = "ok", !.session = updated, !.saved = updated]
    /\ UNCHANGED files
    /\ RuntimeUnchanged

\* session.prompt on the session: a run is entered and made the active run
_handle_session_prompt ==
    /\ pin.stage = "session" /\ pin.session.exists
    /\ pin.session.active_run_id = NoRun
    /\ LET started == [pin.session EXCEPT !.active_run_id = 1, !.updated_at = pin.now + 1]
       IN  pin' = [pin EXCEPT !.op = "session.prompt", !.params = NoParams,
                              !.before = pin.session, !.runs_before = pin.runs,
                              !.now = @ + 1, !.out = "ok", !.session = started,
                              !.saved = started, !.runs = {1}]
    /\ UNCHANGED files
    /\ RuntimeUnchanged

\* the values the parameters of the calls are drawn from
StrParams ==
    {Missing, PyNone, Str(<<>>), Str(<<"SP">>), Str(<<"y">>), Str(<<"SP", "y">>)}

MetadataParams ==
    {Missing, PyNone, Dict({}), Dict({<<<<"y">>, Str(<<"y">>)>>}),
     Dict({<<<<"SP", "y">>, Str(<<"x">>)>>, <<<<"SP">>, Str(<<"x">>)>>}), Str(<<"y">>)}

CreateParams ==
    {[model_id |-> m, chat_id |-> m, metadata |-> d] :
        m \in {Missing, Str(<<"x">>)},
        d \in {Missing, Dict({<<<<"x">>, Str(<<"x">>)>>}), Str(<<"x">>)}}

UpdateParams ==
    {[model_id |-> m, chat_id |-> c, metadata |-> d] :
        m \in StrParams, c \in StrParams, d \in MetadataParams}

NextSession ==
    \/ \E params \in CreateParams : _handle_session_create(params)
    \/ \E params \in UpdateParams : _handle_session_update(params)
    \/ _handle_session_prompt

SpecSession == InitSession /\ [][NextSession]_vars

\* ------------------------------------------------ the move specification
\* WorkspaceTools.execute of workspace_tools.py has no branch for move_file and
\* answers "Unknown tool"; the tool is modelled here as its tests describe it.
\* The arguments of a move_file call: source_path, destination_path and
\* allow_overwrite, as test_workspace_tools.py passes them
MoveCall(source_path, destination_path, allow_overwrite) ==
    [name |-> "move_file", source_path |-> source_path,
     destination_path |-> destination_path, allow_overwrite |-> allow_overwrite]

\* a move that does not look at allow_overwrite
move_file_unguarded(fs, source_path, destination_path, allow_overwrite) ==
    LET s == _resolve_path(source_path)
        d == _resolve_path(destination_path)
    IN  IF ~s.ok \/ ~d.ok THEN ToolError(fs, "Path escapes project root", {})
        ELSE IF ~is_file(fs, s.path) THEN ToolError(fs, "File not found", {s.path})
        ELSE IF s.path = d.path THEN ToolError(fs, "Source and destination are the same", {s.path})
        ELSE IF exists(fs, d.path) /\ ~is_file(fs, d.path)
          THEN ToolError(fs, "Path is not a file", {d.path})
        ELSE IF \E p \in Parents(d.path) : is_file(fs, p)
          THEN Raise(fs, "OSError", "File exists", {d.path} \cup Parents(d.path))
        ELSE Return([l \in DOMAIN fs |->
                        IF l = d.path THEN fs[s.path]
                        ELSE IF l = s.path THEN NoFile
                        ELSE IF l \in Parents(d.path) THEN Directory
                        ELSE fs[l]],
                    d.path, TRUE, TRUE, FALSE, NoArgs, {s.path, d.path} \cup Parents(d.path))

\* the move_file tool in apply mode: the source must be a file, an existing
\* destination is replaced only with allow_overwrite, the directories above
\* the destination are created, and the result names the destination
move_file(fs, source_path, destination_path, allow_overwrite) ==
    LET d == _resolve_path(destination_path)
        guarded == move_file_unguarded(fs, source_path, destination_path, allow_overwrite)
    IN  IF guarded.ok /\ exists(fs, d.path) /\ ~allow_overwrite
          THEN ToolError(fs, "Destination already exists", {d.path})
        ELSE guarded

\* the move_file tool in preview mode: the same refusals, and nothing is moved
preview_move_file(fs, source_path, destination_path, allow_overwrite) ==
    LET res == move_file(fs, source_path, destination_path, allow_overwrite)
    IN  IF res.ok THEN [res EXCEPT !.fs = fs, !.applied = FALSE, !.previewed = TRUE] ELSE res

\* the paths a caller moves from and to
MovePaths == {<<"a.py">>, <<"sub", "b.py">>, <<"sub">>, <<"..", "out.txt">>}

\* the projects a move starts from: every project whose files are not empty
MoveWorkspaces == {w \in Workspaces : \A p \in Paths : w[p].kind = "file" => w[p].bytes # <<>>}

InitMove ==
    /\ RuntimeIdle
    /\ files \in MoveWorkspaces
    /\ \E s \in MovePaths, d \in MovePaths, o \in BOOLEAN :
          pin = [stage |-> "input", call |-> MoveCall(s, d, o)]

\* WorkspaceTools.execute("move_file", ...) is called once, in apply or in
\* preview mode
run_move(auto_apply) ==
    /\ pin.stage = "input"
    /\ LET res == IF auto_apply
                  THEN move_file(files, pin.call.source_path, pin.call.destination_path,
                                 pin.call.allow_overwrite)
                  ELSE preview_move_file(files, pin.call.source_path,
                                         pin.call.destination_path, pin.call.allow_overwrite)
       IN  /\ files' = res.fs
           /\ pin' = [stage |-> "executed", call |-> pin.call, auto_apply |-> auto_apply,
                      before |-> files, res |-> res]
    /\ RuntimeUnchanged

NextMove == \E auto_apply \in BOOLEAN : run_move(auto_apply)

SpecMove == InitMove /\ [][NextMove]_vars

\* ------------------------------------------ the code-block specification
\* run_agent_task when the model's reply carries no tool calls and the fallback
\* has no effect: the fenced code blocks of the fallback's text that are tagged
\* with a path are turned into write_file calls.  A text is a sequence of lines;
\* a line is a fence (with a path tag, with a language tag, or bare) or content.
MaxBridgeLines == 4

PathFence(raw_path) == <<"FENCE", "path:">> \o raw_path
BridgeLines ==
    {PathFence(<<"sub", "b.py">>), PathFence(<<"a.py">>), <<"FENCE", "py">>, <<"FENCE">>, <<"x">>}
BridgeTexts == UNION {[1..n -> BridgeLines] : n \in 0..MaxBridgeLines}

IsFence(line) == line # <<>> /\ Head(line) = "FENCE"
IsPathFence(line) == Len(line) > 2 /\ line[1] = "FENCE" /\ line[2] = "path:"

\* the lines of a block joined by line feeds
RECURSIVE JoinLines(_)
JoinLines(lines) ==
    IF lines = <<>> THEN <<>>
    ELSE IF Len(lines) = 1 THEN Head(lines)
    ELSE Head(lines) \o <<"LF">> \o JoinLines(Tail(lines))

\* the closed blocks of a text that carry a path tag, in the order of the text:
\* a fence opens a block, the next bare fence closes it, a block that is never
\* closed is not a block
RECURSIVE ScanBlocks(_, _, _, _)
ScanBlocks(lines, inside, opening, body) ==
    IF lines = <<>> THEN <<>>
    ELSE LET line == Head(lines)
         IN  IF ~inside
             THEN (IF IsFence(line) THEN ScanBlocks(Tail(lines), TRUE, line, <<>>)
                   ELSE ScanBlocks(Tail(lines), FALSE, <<>>, <<>>))
             ELSE IF line = <<"FENCE">>
             THEN (IF IsPathFence(opening)
                   THEN <<[path |-> SubSeq(opening, 3, Len(opening)),
                           content |-> JoinLines(body)]>>
                   ELSE <<>>) \o ScanBlocks(Tail(lines), FALSE, <<>>, <<>>)
             ELSE ScanBlocks(Tail(lines), TRUE, opening, Append(body, line))

_extract_code_blocks(text) == ScanBlocks(text, FALSE, <<>>, <<>>)

\* every tagged block is executed as a write_file call, applied or previewed
\* as the task asks, and its effect is recorded as the loop records it
RECURSIVE _bridge_code_blocks(_, _, _)
_bridge_code_blocks(blocks, run, st) ==
    IF blocks = <<>> THEN st
    ELSE LET call == [NoArgs EXCEPT !.name = "write_file", !.path = Head(blocks).path,
                                    !.content = Head(blocks).content]
             Record(payload) ==
                [fs |-> payload.fs,
                 applied_files |-> st.applied_files \cup _extract_changed_path(payload),
                 pending_changes |-> AddPending(st.pending_changes,
                                                _extract_pending_change(payload))]
         IN  _bridge_code_blocks(Tail(blocks), run,
                Record(_execute_tool_call(st.fs, call, run.auto_apply, run.tool_policy)))

BridgeWorkspaces ==
    {w \in Workspaces : w[SubBPy] = NoFile /\ w[APy] \in {NoFile, File(<<"x">>)}}

InitBridge ==
    /\ RuntimeIdle
    /\ files \in BridgeWorkspaces
    /\ \E a \in BOOLEAN :
          pin = [NoTask EXCEPT !.auto_apply = a, !.requires_changes = TRUE,
                               !.before = files, !.step_before = files]

\* the first reply of the model has no tool calls, the fallback's reply has
\* no action, and its text is bridged
bridge_fallback_text(text) ==
    /\ pin.stage = "task" /\ pin.site = "loop"
    /\ pin.total_tool_calls = 0
    /\ LET Bridged(st) ==
              /\ files' = st.fs
              /\ pin' = [task_result(pin, "bridge", 0, st.applied_files, st.pending_changes)
                            EXCEPT !.calls = text]
       IN  Bridged(_bridge_code_blocks(_extract_code_blocks(text), TaskRun(pin),
                       [fs |-> files, applied_files |-> {}, pending_changes |-> <<>>]))
    /\ RuntimeUnchanged

NextBridge == \E text \in BridgeTexts : bridge_fallback_text(text)

SpecBridge == InitBridge /\ [][NextBridge]_vars

\* ------------------------------------------- the completion-request specification
\* One loop step of run_agent_task, await by await: the streaming request, the
\* login after an AuthenticationError, the non-streaming request, and the reply.
\* site says which await the coroutine is suspended at; the specification ends
\* where the fallback is called, where the task returns, or where an exception
\* leaves run_agent_task.
AuthenticationError == [type |-> "AuthenticationError", status_code |-> 0]
RequestFailedError(status_code) == [type |-> "RequestFailedError", status_code |-> status_code]
StatusCodes == {400, 404, 422, 500}
RequestErrors == {AuthenticationError} \cup {RequestFailedError(c) : c \in StatusCodes}

\* "exc.status_code not in {400, 404, 422}", negated
IsRejection(exc) == exc.type = "RequestFailedError" /\ exc.status_code \in {400, 404, 422}

\* the locals of the loop; stream_rejected, non_stream_requests, rejected_twice
\* and succeeded record what happened in the step (in the task, for succeeded)
NoRequest ==
    [stage |-> "request", site |-> "stream", auto_apply |-> TRUE, requires_changes |-> FALSE,
     step |-> 0, total_tool_calls |-> 0, succeeded |-> 0, applied_files |-> {},
     pending_changes |-> <<>>, stream_rejected |-> FALSE, non_stream_requests |-> 0,
     rejected_twice |-> FALSE, reply |-> "none", via |-> "none"]

InitRequest ==
    /\ RuntimeIdle
    /\ files = InitFiles
    /\ \E a, q \in BOOLEAN : pin = [NoRequest EXCEPT !.auto_apply = a, !.requires_changes = q]

\* the exception leaves run_agent_task
request_fails(p) == [p EXCEPT !.site = "failed", !.via = "raise"]

\* "for step_idx in range(_AGENT_MAX_STEPS)" comes round to the next request
next_request(p) ==
    [p EXCEPT !.site = "stream", !.stream_rejected = FALSE, !.non_stream_requests = 0,
              !.rejected_twice = FALSE, !.reply = "none"]

\* the number of tool messages that report a call as done
Succeeded(messages) == Cardinality({i \in 1..Len(messages) : messages[i].ok})

\* "should_try_fallback = (total_tool_calls == 0 or (task_requires_changes and
\* not applied_files and not pending_changes))"
should_try_fallback(p) ==
    p.total_tool_calls = 0
    \/ (p.requires_changes /\ p.applied_files = {} /\ p.pending_changes = <<>>)

\* "except RequestFailedError as exc" of the streaming request: the same step
\* is asked again with chat_completion
non_stream_request(p) ==
    [p EXCEPT !.site = "non_stream", !.stream_rejected = TRUE, !.non_stream_requests = @ + 1]

\* the code from "last_raw = raw" to the next await or return
reply_received(tool_calls) ==
    LET p == pin
        Reply(st) ==
            [p EXCEPT !.step = @ + 1,
                      !.total_tool_calls = st.total_tool_calls,
                      !.succeeded = @ + Succeeded(st.messages),
                      !.applied_files = st.applied_files,
                      !.pending_changes = st.pending_changes,
                      !.reply = "tool_calls"]
        StepDone(st, p1) ==
            /\ files' = st.fs
            /\ pin' = IF p1.step < AGENT_MAX_STEPS THEN next_request(p1)
                      ELSE [p1 EXCEPT !.site = "returned", !.via = "timeout"]
        AfterCalls(st) == StepDone(st, Reply(st))
    IN  IF tool_calls = <<>>
        THEN /\ UNCHANGED files
             /\ pin' = IF should_try_fallback(p)
                       THEN [p EXCEPT !.site = "fallback", !.via = "no_tool_calls",
                                      !.reply = "no_tool_calls"]
                       ELSE [p EXCEPT !.site = "returned", !.via = "answer",
                                      !.reply = "no_tool_calls"]
        ELSE AfterCalls(RunToolCalls(tool_calls, TaskRun(p),
                 [fs |-> files, total_tool_calls |-> p.total_tool_calls,
                  applied_files |-> p.applied_files, pending_changes |-> p.pending_changes,
                  log |-> <<>>, messages |-> <<>>, events |-> <<>>]))

\* "raw = await self._client.chat_completion_stream(...)" returns, in the try
\* body or in the handler of the AuthenticationError
chat_completion_stream_returns(tool_calls) ==
    /\ pin.stage = "request" /\ pin.site \in {"stream", "stream_retry"}
    /\ reply_received(tool_calls)
    /\ RuntimeUnchanged

\* chat_completion_stream raises.  In the try body an AuthenticationError goes
\* to login and a 400/404/422 to the non-streaming request; an exception raised
\* by the request in the "except AuthenticationError" handler is not handled by
\* the "except RequestFailedError" clause of the same try statement
chat_completion_stream_raises(exc) ==
    /\ pin.stage = "request" /\ pin.site \in {"stream", "stream_retry"}
    /\ pin' = IF pin.site = "stream_retry"
              THEN request_fails([pin EXCEPT !.stream_rejected = IsRejection(exc)])
              ELSE IF exc.type = "AuthenticationError"
              THEN [pin EXCEPT !.site = "login_stream"]
              ELSE IF IsRejection(exc) THEN non_stream_request(pin)
              ELSE request_fails(pin)
    /\ UNCHANGED files
    /\ RuntimeUnchanged

\* "await self.login()" returns: the request that failed is sent again
login_returns ==
    /\ pin.stage = "request" /\ pin.site \in {"login_stream", "login_non_stream"}
    /\ pin' = [pin EXCEPT !.site = IF pin.site = "login_stream" THEN "stream_retry"
                                   ELSE "non_stream_retry"]
    /\ UNCHANGED files
    /\ RuntimeUnchanged

login_raises ==
    /\ pin.stage = "request" /\ pin.site \in {"login_stream", "login_non_stream"}
    /\ pin' = request_fails(pin)
    /\ UNCHANGED files
    /\ RuntimeUnchanged

\* "raw = await self._client.chat_completion(...)" returns
chat_completion_returns(tool_calls) ==
    /\ pin.stage = "request" /\ pin.site \in {"non_stream", "non_stream_retry"}
    /\ reply_received(tool_calls)
    /\ RuntimeUnchanged

\* chat_completion raises: in the try body a 400/404/422 turns to the fallback
\* when total_tool_calls is 0 and is raised otherwise; in the handler of the
\* AuthenticationError every exception leaves the task
chat_completion_raises(exc) ==
    /\ pin.stage = "request" /\ pin.site \in {"non_stream", "non_stream_retry"}
    /\ LET p == [pin EXCEPT !.rejected_twice = IsRejection(exc)]
       IN  pin' = IF pin.site = "non_stream_retry" THEN request_fails(p)
                  ELSE IF exc.type = "AuthenticationError"
                  THEN [pin EXCEPT !.site = "login_non_stream"]
                  ELSE IF IsRejection(exc) /\ p.total_tool_calls = 0
                  THEN [p EXCEPT !.site = "fallback", !.via = "rejected"]
                  ELSE request_fails(p)
    /\ UNCHANGED files
    /\ RuntimeUnchanged

\* the replies of the model: no call, a call that succeeds, a call that fails,
\* a call that changes a file
RequestReplies == {<<>>, <<ReadCall>>, <<MissingFileCall>>, <<WriteCall>>}

NextRequest ==
    \/ \E c \in RequestReplies : chat_completion_stream_returns(c)
    \/ \E exc \in RequestErrors : chat_completion_stream_raises(exc)
    \/ login_returns
    \/ login_raises
    \/ \E c \in RequestReplies : chat_completion_returns(c)
    \/ \E exc \in RequestErrors : chat_completion_raises(exc)

SpecRequest == InitRequest /\ [][NextRequest]_vars

\* ------------------------------------------------ the reply-parsing specification
\* A reply of the fallback is a sequence of pieces: prose, a JSON value written
\* in the text, a fenced block around one piece, or a line that reads like a
\* call.  JSON objects carry the three keys the parser looks at.
MaxPieces == 3

JObj(actions, action, tool) == [t |-> "dict", actions |-> actions, action |-> action, tool |-> tool]
ToolAction(tool_name) == JObj(Missing, Missing, Str(tool_name))
Prose == [k |-> "prose"]
Json(value) == [k |-> "json", v |-> value]
CallLine(call_name) == [k |-> "call", name |-> call_name]
Fenced(tag, piece) == [k |-> "fence", tag |-> tag, body |-> piece]

SUPPORTED_TOOL_NAMES ==
    {"list_files", "read_file", "search_in_files", "write_file", "replace_in_file", "delete_file"}

JsonValues ==
    {JObj(List(<<>>), Missing, Missing),
     JObj(List(<<Str("x")>>), Missing, Missing),
     JObj(List(<<ToolAction("read_file")>>), Missing, Missing),
     JObj(Missing, ToolAction("delete_file"), Missing),
     ToolAction("list_files"),
     JObj(Missing, Missing, Missing),
     List(<<>>),
     List(<<ToolAction("read_file")>>)}

PlainPieces ==
    {Prose, CallLine("write_file"), CallLine("move_file")} \cup {Json(v) : v \in JsonValues}
ReplyPieces ==
    PlainPieces
    \cup {Fenced("json", Json(v)) : v \in {JObj(List(<<>>), Missing, Missing),
                                           JObj(List(<<ToolAction("delete_file")>>), Missing, Missing)}}
    \cup {Fenced("py", CallLine("create_file"))}
ReplyTexts == UNION {[1..n -> ReplyPieces] : n \in 0..MaxPieces}

\* the pieces of a text with the fences opened: what a scan of its characters meets
RECURSIVE Unfenced(_)
Unfenced(text) ==
    IF text = <<>> THEN <<>>
    ELSE (IF Head(text).k = "fence" THEN <<Head(text).body>> ELSE <<Head(text)>>)
         \o Unfenced(Tail(text))

\* re.findall(r"```(?:json)?\s*(.*?)```", ...): the bodies of the fenced blocks
RECURSIVE FencedBodies(_)
FencedBodies(text) ==
    IF text = <<>> THEN <<>>
    ELSE (IF Head(text).k = "fence" THEN <<<<Head(text).body>>>> ELSE <<>>)
         \o FencedBodies(Tail(text))

\* the dict items of a JSON list
DictItems(items) == SelectSeq(items, LAMBDA item : item.t = "dict")

\* the objects whose braces a text shows at its top level, in order: an object
\* written in the text, or each object of a list written in the text
RECURSIVE CurlySpans(_)
CurlySpans(pieces) ==
    IF pieces = <<>> THEN <<>>
    ELSE (IF Head(pieces).k # "json" THEN <<>>
          ELSE IF Head(pieces).v.t = "dict" THEN <<Head(pieces).v>>
          ELSE DictItems(Head(pieces).v.v))
         \o CurlySpans(Tail(pieces))

\* AgentRuntime._decode_json_candidate: json.loads of the whole candidate, then
\* of the text from its first "{" to its last "}"; PyNone when neither decodes
_decode_json_candidate(candidate) ==
    LET pieces == Unfenced(candidate)
        spans == CurlySpans(pieces)
    IN  IF Len(candidate) = 1 /\ candidate[1].k = "json" THEN candidate[1].v
        ELSE IF Len(spans) = 1 THEN spans[1]
        ELSE PyNone

\* what one candidate gives: found says that the parser returns here
CandidateActions(candidate) ==
    LET decoded == _decode_json_candidate(candidate)
    IN  IF decoded.t = "dict"
        THEN (IF decoded.actions.t = "list"
              THEN [found |-> TRUE, actions |-> DictItems(decoded.actions.v)]
              ELSE IF decoded.action.t = "dict"
              THEN [found |-> TRUE, actions |-> <<decoded.action>>]
              ELSE IF decoded.tool.t = "str"
              THEN [found |-> TRUE, actions |-> <<decoded>>]
              ELSE [found |-> FALSE, actions |-> <<>>])
        ELSE IF decoded.t = "list"
        THEN [found |-> TRUE, actions |-> DictItems(decoded.v)]
        ELSE [found |-> FALSE, actions |-> <<>>]

\* AgentRuntime._parse_function_calls_from_text: the call-like lines of the
\* text and of its fenced blocks, aliases resolved, unsupported names and
\* repeated actions dropped
RECURSIVE CallActions(_, _)
CallActions(pieces, parsed) ==
    IF pieces = <<>> THEN parsed
    ELSE LET action == ToolAction(_TOOL_NAME_ALIASES(Head(pieces).name))
         IN  IF Head(pieces).k # "call"
                \/ _TOOL_NAME_ALIASES(Head(pieces).name) \notin SUPPORTED_TOOL_NAMES
                \/ \E i \in 1..Len(parsed) : parsed[i] = action
             THEN CallActions(Tail(pieces), parsed)
             ELSE CallActions(Tail(pieces), Append(parsed, action))

_parse_function_calls_from_text(text) == CallActions(Unfenced(text), <<>>)

\* a parser that goes on to the next candidate when the decoded list is empty
RECURSIVE FirstNonEmpty(_)
FirstNonEmpty(candidates) ==
    IF candidates = <<>> THEN [found |-> FALSE, actions |-> <<>>]
    ELSE IF CandidateActions(Head(candidates)).actions # <<>>
    THEN CandidateActions(Head(candidates))
    ELSE FirstNonEmpty(Tail(candidates))

\* "for candidate in candidates": the first candidate that decodes to an
\* action list, an action or a tool is returned, empty or not
RECURSIVE FirstFound(_)
FirstFound(candidates) ==
    IF candidates = <<>> THEN [found |-> FALSE, actions |-> <<>>]
    ELSE IF CandidateActions(Head(candidates)).found THEN CandidateActions(Head(candidates))
    ELSE FirstFound(Tail(candidates))

\* AgentRuntime._parse_text_tool_actions
_parse_text_tool_actions(text) ==
    IF text = <<>> THEN <<>>
    ELSE LET first == FirstFound(<<text>> \o FencedBodies(text))
         IN  IF first.found THEN first.actions
             ELSE _parse_function_calls_from_text(text)

InitParse ==
    /\ RuntimeIdle
    /\ files = InitFiles
    /\ \E text \in ReplyTexts : pin = [stage |-> "reply", text |-> text, actions |-> <<>>]

\* "actions = self._parse_text_tool_actions(assistant_text)"
parse_reply ==
    /\ pin.stage = "reply"
    /\ pin' = [pin EXCEPT !.stage = "parsed", !.actions = _parse_text_tool_actions(pin.text)]
    /\ UNCHANGED files
    /\ RuntimeUnchanged

NextParse == parse_reply

SpecParse == InitParse /\ [][NextParse]_vars

\* ------------------------------------------------ the event-mapping specification
\* the loop events stream_callback can be handed: the five types the loop emits
\* and a type it does not know, with the texts a status carries
LoopEventTypes ==
    {"status", "tool_start", "tool_result", "assistant_delta", "reasoning_delta", "stream"}
LoopEventTexts == {"vypolnyayu", "otvet sformirovan", "step", "delta", "result", ""}
LoopEvents ==
    {[type |-> ty, text |-> tx, decision |-> d] :
        ty \in LoopEventTypes, tx \in LoopEventTexts, d \in {"none", "approve", "deny"}}

InitMap ==
    /\ RuntimeIdle
    /\ files = InitFiles
    /\ \E e \in LoopEvents : pin = [stage |-> "event", source_event |-> e, events |-> <<>>]

\* "for event in self._map_runtime_stream_events(...)" of stream_callback
map_event ==
    /\ pin.stage = "event"
    /\ pin' = [pin EXCEPT !.stage = "mapped",
                          !.events = _map_runtime_stream_events(pin.source_event)]
    /\ UNCHANGED files
    /\ RuntimeUnchanged

NextMap == map_event

SpecMap == InitMap /\ [][NextMap]_vars

\* ------------------------------------------- the progress specification
\* a step of the task of run r or of one of its stream event tasks: the event
\* loop runs every task that is ready, and every model call, tool call,
\* verification command and sink call the task awaits returns
RunStep(r) ==
    \/ task_start(r)
    \/ emit_started_return(r, "returns")
    \/ \E ok \in BOOLEAN : prepare_return(r, ok)
    \/ \E k \in {"tool_calls", "no_tool_calls", "rejected", "raises"},
          c \in {<<>>, <<ReadCall>>} :
          /\ k = "tool_calls" => loc[r].total_tool_calls + Len(c) <= MaxToolCalls
          /\ model_return(r, k, c, <<>>)
    \/ \E k \in {"reply", "request_failed", "raises"}, c \in {<<>>, <<ReadCall>>} :
          /\ k = "reply" => loc[r].fb_replies < MaxFallbackReplies
          /\ fallback_return(r, k, c)
    \/ drain_done(r)
    \/ verify_return(r)
    \/ emit_verified_return(r, "returns")
    \/ final_emit_return(r, "returns")
    \/ handler_drain_done(r)
    \/ \E b \in BOOLEAN : deliver_stream(r, b, "returns")
    \/ sink_return(r, "returns")
    \/ deliver_cancel(r)

\* the calls of the clients, in any interleaving with the runs
NextProgress ==
    \/ \E s \in SessionIds : create_session(s)
    \/ \E s \in SessionIds : start_prompt(s, TRUE, NoPolicy, MaxVerify, FALSE)
    \/ \E s \in SessionIds, r \in RunIds \cup {NoRun} : cancel_run(s, r)
    \/ \E r \in RunIds : wait_run_call(r)
    \/ wait_run_wake
    \/ wait_run_timeout
    \/ \E r \in RunIds : RunStep(r)

SpecProgress == Init /\ [][NextProgress]_vars /\ \A r \in RunIds : WF_vars(RunStep(r))

\* ---------------------------------------- the preview/apply specification
\* the tool calls of a task run one after the other in apply mode
RECURSIVE AutoApply(_, _)
AutoApply(fs, calls) ==
    IF calls = <<>> THEN fs
    ELSE AutoApply(_execute_tool_call(fs, Head(calls), TRUE, NoPolicy).fs, Tail(calls))

MaxEquivCalls == 2

EquivCalls ==
    {WriteCall,
     [WriteCall EXCEPT !.content = <<"y">>, !.allow_overwrite = TRUE],
     [WriteCall EXCEPT !.path = <<"sub", "b.py">>],
     [NoArgs EXCEPT !.name = "replace_in_file", !.path = <<"a.py">>, !.find = <<"x">>,
                    !.replace = Str(<<"y">>)],
     DeleteCall}

RECURSIVE EquivTasks(_)
EquivTasks(n) ==
    IF n = 0 THEN {<<>>}
    ELSE LET shorter == EquivTasks(n - 1)
         IN  shorter \cup {Append(t, c) : t \in {u \in shorter : Len(u) = n - 1},
                                          c \in EquivCalls}

InitEquiv ==
    /\ RuntimeIdle
    /\ files \in ChangeWorkspaces
    /\ pin = [stage |-> "equiv", phase |-> "start", start |-> files, calls |-> <<>>,
              pending |-> <<>>]

\* a task runs its tool calls in preview mode and registers what they preview
preview_mode_task(calls) ==
    /\ pin.stage = "equiv" /\ pin.phase = "start"
    /\ pin' = [pin EXCEPT !.phase = "previewed", !.calls = calls,
                          !.pending = PreviewChanges(files, calls)]
    /\ UNCHANGED files
    /\ RuntimeUnchanged

\* apply_pending_changes on the set the task registered
apply_registered ==
    /\ pin.stage = "equiv" /\ pin.phase = "previewed" /\ pin.pending # <<>>
    /\ files' = ApplyChanges(pin.pending,
                             [fs |-> files, snapshots |-> <<>>, applied_count |-> 0,
                              errors |-> 0, raised |-> FALSE]).fs
    /\ pin' = [pin EXCEPT !.phase = "applied"]
    /\ RuntimeUnchanged

NextEquiv ==
    \/ \E calls \in EquivTasks(MaxEquivCalls) \ {<<>>} : preview_mode_task(calls)
    \/ apply_registered

SpecEquiv == InitEquiv /\ [][NextEquiv]_vars

\* ------------------------------------------- the ownership specification
\* one more session than the other specifications have: it starts no run, and
\* cancel_run is called with either session id and any run id
CancelSessionIds == 1..(MaxSessions + 1)

InitCancel ==
    /\ sessions = [s \in CancelSessionIds |-> NoSession]
    /\ runs = [r \in RunIds |-> EmptyRun]
    /\ task = [r \in RunIds |-> "none"]
    /\ must_cancel = [r \in RunIds |-> FALSE]
    /\ loc = [r \in RunIds |-> InitLoc]
    /\ streamQ = [r \in RunIds |-> <<>>]
    /\ streamBusy = [r \in RunIds |-> FALSE]
    /\ sinkLog = [r \in RunIds |-> <<>>]
    /\ files = InitFiles
    /\ toolLog = [r \in RunIds |-> <<>>]
    /\ store = TRUE
    /\ sinkRaised = {}
    /\ persisted = _persist_state(sessions, runs)
    /\ waiter = IdleWaiter
    /\ resp = NoResp
    /\ cancel_accepted = {}
    /\ restarts = 0
    /\ pin = 0

NextCancel ==
    \/ \E s \in CancelSessionIds : create_session(s)
    \/ \E s \in SessionIds : start_prompt(s, TRUE, NoPolicy, MaxVerify, FALSE)
    \/ \E s \in CancelSessionIds, r \in RunIds \cup {NoRun} : cancel_run(s, r)
    \/ \E r \in RunIds : RunStep(r)

SpecCancel == InitCancel /\ [][NextCancel]_vars

\* ------------------------------------------------------------- claims
ActiveRunsOf(s) ==
    {r \in RunIds : runs[r].exists /\ runs[r].session_id = s
                    /\ runs[r].status \in {"queued", "running"}}

\* C1: each session has at most one run whose status is queued or running, and
\* start_prompt on a session whose current run has not reached a terminal
\* status answers run_in_progress.
C1_OneActiveRunPerSession ==
    /\ \A s \in SessionIds : Cardinality(ActiveRunsOf(s)) <= 1
    /\ (resp.op = "start_prompt" /\ resp.pre \in {"queued", "running"})
          => resp.out = "run_in_progress"

\* the status changes the lifecycle allows outside a reload
LifecycleSteps ==
    {<<"queued", "running">>, <<"running", "completed">>, <<"running", "failed">>,
     <<"running", "cancelled">>}

\* C2: a run's status changes only along queued -> running -> completed, failed
\* or cancelled, interrupted is assigned only at reload, and a terminal status
\* never changes again.
C2_StatusLifecycle ==
    [][\A r \in RunIds :
          (runs[r].exists /\ runs'[r].exists /\ runs'[r].status # runs[r].status)
             => /\ runs[r].status \notin Terminal
                /\ IF restarts' # restarts
                   THEN runs'[r].status = "interrupted"
                   ELSE <<runs[r].status, runs'[r].status>> \in LifecycleSteps]_vars

\* C3: whenever wait_run returns a snapshot instead of raising, the status of
\* the snapshot is terminal.
C3_WaitReturnsTerminal ==
    (resp.op = "wait_run" /\ resp.out \notin {"raise_timeout", "raise_cancelled_error"})
       => resp.out \in Terminal

\* C4: a run for which cancel_run has answered cancelled=true ends with status
\* cancelled: once its task is over, the status is neither completed nor
\* failed nor still queued or running.
C4_AcceptedCancelEndsCancelled ==
    \A r \in cancel_accepted : task[r] \in Finished => runs[r].status = "cancelled"

\* C5: cancel_run on a run whose status is terminal answers cancelled=false
\* with reason run_already_finished, and cancel_run without a run id on a
\* session with no active run answers cancelled=false with reason no_active_run.
C5_CancelReasons ==
    /\ (resp.op = "cancel_run" /\ resp.pre \in Terminal) => resp.out = "run_already_finished"
    /\ (resp.op = "cancel_run" /\ resp.pre = "none") => resp.out = "no_active_run"

\* C6: cancel_run on a run that is terminal or does not exist is a no-op: no
\* error is raised, no cancellation is requested and no run or session changes.
C6_CancelNoOp ==
    [][(resp'.op = "cancel_run" /\ resp'.pre \in Terminal \cup {"absent"})
          => /\ resp'.out # "raise_not_found"
             /\ runs' = runs
             /\ sessions' = sessions
             /\ must_cancel' = must_cancel]_vars

\* the awaits of a model call (of the loop or of the fallback) and of a
\* verification command
InFlight == {"model", "fallback", "verify"}

\* C7 as claimed: a cancellation takes effect only between loop steps, so the
\* cancellation handler is never entered from the await of a model call or of
\* a verification command.
C7_InFlightCallCompletes ==
    [][\A r \in RunIds :
          (task[r] \in InFlight /\ restarts' = restarts)
             => task'[r] \notin {"c_drain", "c_emit"}]_vars

\* C7 as amended: once cancel_run has requested the cancellation, the next step
\* of the run's task raises CancelledError at the await it is suspended on:
\* the awaited call is abandoned, its outcome is not processed, no tool call is
\* executed and the status can only become cancelled.
C7_CancelAbandonsAwaitedCall ==
    [][\A r \in RunIds :
          (must_cancel[r] /\ restarts' = restarts)
             => /\ toolLog'[r] = toolLog[r]
                /\ loc'[r] \in {loc[r], InitLoc}
                /\ task'[r] \in {task[r], "c_drain", "c_emit", "cancelled"}
                /\ runs'[r].status \in {runs[r].status, "cancelled"}]_vars

\* a cancellation has been requested while a model call or a verification
\* command is in flight
C7_Witness == \E r \in RunIds : must_cancel[r] /\ task[r] \in {"model", "verify"}

\* C8: at a restart every run persisted as queued or running is loaded as
\* interrupted and without a task, no session's active_run_id is left pointing
\* to a missing or terminal run, and an interrupted run is never executed again.
C8_ReloadInterrupts ==
    [][/\ restarts' # restarts =>
             /\ \A r \in RunIds :
                   (persisted.runs[r].exists
                    /\ persisted.runs[r].status \in {"queued", "running"})
                      => (runs'[r].status = "interrupted" /\ task'[r] = "none")
             /\ \A s \in SessionIds :
                   LET a == sessions'[s].active_run_id
                   IN  a = NoRun \/ (runs'[a].exists /\ runs'[a].status \notin Terminal)
       /\ \A r \in RunIds :
             (runs[r].exists /\ runs[r].status = "interrupted")
                => /\ task[r] = "none" /\ task'[r] = "none"
                   /\ runs'[r] = runs[r]
                   /\ toolLog'[r] = toolLog[r] /\ sinkLog'[r] = sinkLog[r]]_vars

\* a restart has found a run in progress: the run is interrupted, has no task,
\* and its session's pointer is cleared
C8_Witness ==
    /\ restarts > 0
    /\ \E r \in RunIds :
          /\ runs[r].exists /\ runs[r].status = "interrupted" /\ task[r] = "none"
          /\ sessions[runs[r].session_id].active_run_id = NoRun

IsDenied(entry) == entry.decision = "deny"
IsDenyEvent(e) == e.event = "tool.result" /\ e.decision = "deny"
DeniedCalls(r) == {i \in DOMAIN toolLog[r] : IsDenied(toolLog[r][i])}
DenyEvents(r) == {i \in DOMAIN sinkLog[r] : IsDenyEvent(sinkLog[r][i])}

C10_PolicyPriority ==
    pin.stage = "decided" =>
       LET name == Strip(pin.in.tool_name)
           denied == name \in pin.policy.deny_tools.v
           mutation == pin.policy.deny_mutations.v /\ name \in MUTATING_TOOLS
           unlisted == pin.policy.allow_tools.v # {} /\ name \notin pin.policy.allow_tools.v
           configured == MergeField(pin.in.meta.default_decision,
                                    pin.in.override.default_decision)
       IN  /\ denied => pin.decision.decision = "deny"
           /\ (~denied /\ mutation) => pin.decision.decision = "deny"
           /\ (~denied /\ ~mutation /\ unlisted) => pin.decision.decision = "deny"
           /\ (~denied /\ ~mutation /\ ~unlisted)
                 => pin.decision.decision = pin.policy.default_decision.v
           /\ configured = Missing => pin.policy.default_decision.v = "approve"
           /\ pin.policy.default_decision.v \in {"approve", "deny"}

\* a name that is in the deny list and in the allow list has been denied
C10_Witness ==
    /\ pin.stage = "decided"
    /\ Strip(pin.in.tool_name) \in pin.policy.deny_tools.v
    /\ Strip(pin.in.tool_name) \in pin.policy.allow_tools.v
    /\ pin.decision.decision = "deny"

\* ------------------------------------------------ claims on the workspace
\* C11: executing a tool in preview mode (auto_apply false) leaves every file
\* and directory of the workspace as it was, whether the call succeeds or
\* fails; the workspace changes only in a step that executes a tool in apply
\* mode or applies the apply_args of a pending change
C11_PreviewLeavesWorkspace ==
    [][/\ (pin'.stage = "executed" /\ ~pin'.auto_apply) => files' = files
       /\ files' # files =>
            \/ pin'.stage = "executed" /\ pin'.auto_apply
            \/ pin'.stage = "applied"]_vars

\* a preview of write_file that reports a change and leaves the file alone
C11_Witness ==
    /\ pin.stage = "executed"
    /\ ~pin.auto_apply
    /\ pin.call.name = "write_file"
    /\ pin.res.ok
    /\ pin.res.changed
    /\ files = pin.before

\* the location the path argument of a call resolves to
Target(call) == Resolve(_as_str(call.path, <<".">>))

WritesExistingFile ==
    /\ pin.stage = "executed"
    /\ pin.call.name = "write_file"
    /\ StripText(pin.call.path) # <<>>
    /\ IsPrefix(project_root, Target(pin.call))
    /\ is_file(pin.before, Target(pin.call))

\* C13: write_file, in apply and in preview mode, fails with a tool error and
\* leaves the file as it was when the target is a file whose content is not
\* empty and differs from the new content and allow_overwrite is not true;
\* it succeeds whenever the existing content is empty or equal to the new
\* content or allow_overwrite is true
C13_OverwriteGuard ==
    WritesExistingFile =>
        LET existing == pin.before[Target(pin.call)].bytes
            refused == existing # <<>> /\ existing # pin.call.content
                       /\ ~pin.call.allow_overwrite
        IN  /\ refused => ~pin.res.ok /\ pin.res.raised = "WorkspaceToolError"
                          /\ files = pin.before
            /\ ~refused => pin.res.ok

\* C14: for every path and content, executing write_file with the apply_args
\* that the preview of write_file(p, c) returned leaves the workspace in the
\* state that executing write_file(p, c) directly in the same workspace gives
C14_ApplyArgsRoundTrip ==
    (pin.stage = "applied" /\ pin.call.name = "write_file") =>
        files = execute(pin.before, pin.call, TRUE).fs

\* the apply_args of a preview, with the path made relative and the content
\* stripped, have been executed and have created a file below a new directory
C14_Witness ==
    /\ pin.stage = "applied"
    /\ pin.call.name = "write_file"
    /\ pin.res.apply_args.content # pin.call.content
    /\ pin.res.apply_args.path = <<"sub", "b.py">>
    /\ pin.applied.ok
    /\ files # pin.before

\* ---------------------------------------------- claims on the change sets
\* C15: when undo_applied_changes is called with the id that the apply just
\* before it returned, every file the apply touched has its pre-apply
\* existence and content again, and the snapshot set is consumed: the id is
\* no longer in the registry, so a second undo or a discard finds nothing
C15_UndoRestores ==
    (pin.last.op = "undo" /\ pin.last.follows_apply) =>
        /\ \A l \in pin.last.touched : files[l] = pin.last.before[l]
        /\ ~Has(pin.applied, pin.last.id)

\* C16: the registry of pending change sets never holds more than 64 sets;
\* a registration that finds it full evicts the oldest set and never the set
\* it registers; apply_pending_changes removes the set it applies, and an
\* apply of an id that is not (or no longer) registered finds nothing and
\* changes nothing
C16_PendingRegistryBounded ==
    [][/\ Len(pin'.pending) <= PENDING_CHANGE_SET_LIMIT
       /\ (pin'.last.op = "register" /\ pin'.regs # pin.regs) =>
             /\ Has(pin'.pending, pin'.last.out_id)
             /\ Without(pin'.pending, pin'.last.out_id) =
                   IF Len(pin.pending) = PENDING_CHANGE_SET_LIMIT
                   THEN Tail(pin.pending) ELSE pin.pending
       /\ (pin'.last.op = "apply" /\ pin'.ops # pin.ops) =>
             /\ ~Has(pin'.pending, pin'.last.id)
             /\ pin'.last.found = Has(pin.pending, pin'.last.id)
             /\ ~pin'.last.found => files' = files /\ pin'.pending = pin.pending]_vars

\* the registry is full after a registration that evicted the first set, and
\* the set just registered is its newest
C16_Witness ==
    /\ pin.last.op = "register"
    /\ Len(pin.pending) = PENDING_CHANGE_SET_LIMIT
    /\ Head(pin.pending).id = 2
    /\ pin.pending[Len(pin.pending)].id = pin.last.out_id
    /\ pin.regs = PENDING_CHANGE_SET_LIMIT + 1

\* the positions of a sink log that hold the named event
Positions(log, name) == {i \in 1..Len(log) : log[i].event = name}

\* the positions of a sink log that hold a progress event of the given phase
ProgressAt(log, phase) ==
    {i \in 1..Len(log) : log[i].event = "run.progress" /\ log[i].phase = phase}

\* C17: for every run that completes, the events its sink received are
\* ordered: run.started is the first one, every run.progress and tool.result
\* event of the loop comes before run.verified, run.verified comes before
\* run.completed, and every progress event with phase act comes before the
\* progress events with phase final.
C17_EventOrder ==
    \A r \in RunIds :
        LET log == sinkLog[r]
        IN  (runs[r].exists /\ runs[r].status = "completed" /\ task[r] = "done")
            => /\ Positions(log, "run.started") = {1}
               /\ \A v \in Positions(log, "run.verified") :
                      \A i \in Positions(log, "run.progress") \cup Positions(log, "tool.result") :
                          i < v
               /\ \A c \in Positions(log, "run.completed") :
                      \E v \in Positions(log, "run.verified") : v < c
               /\ Positions(log, "run.completed") # {}
               /\ \A a \in ProgressAt(log, "act"), f \in ProgressAt(log, "final") : a < f

\* the positions of a sink log that hold the phase-final progress event of
\* the status announcing the formed answer
AnswerFormedAt(log) == {i \in ProgressAt(log, "final") : log[i].payload = "status"}

\* C17 (amended): run.started is the first event a sink receives, no
\* run.progress or tool.result event comes after run.verified, run.completed
\* comes only after run.verified and a completed run ends with it; every
\* progress event with phase act comes before the phase-final progress event
\* of the status that announces the formed answer.  (The text streamed with a
\* reply is reported with phase final as well, and comes before the act
\* events of the tool calls that reply asks for.)
C17_EventOrderAmended ==
    \A r \in RunIds :
        LET log == sinkLog[r]
            completed == runs[r].exists /\ runs[r].status = "completed" /\ task[r] = "done"
        IN  /\ log # <<>> => Positions(log, "run.started") = {1}
            /\ \A v \in Positions(log, "run.verified") :
                   \A i \in Positions(log, "run.progress") \cup Positions(log, "tool.result") :
                       i < v
            /\ \A c \in Positions(log, "run.completed") :
                   \E v \in Positions(log, "run.verified") : v < c
            /\ completed => log[Len(log)].event = "run.completed"
            /\ \A a \in ProgressAt(log, "act"), f \in AnswerFormedAt(log) : a < f

\* a completed run whose first reply streamed text and asked for a tool call
C17_Witness ==
    \E r \in RunIds :
        /\ runs[r].exists /\ runs[r].status = "completed" /\ task[r] = "done"
        /\ runs[r].result.tool_steps > 0
        /\ \E f \in ProgressAt(sinkLog[r], "final"), a \in ProgressAt(sinkLog[r], "act") : f < a
        /\ Positions(sinkLog[r], "tool.result") # {}
        /\ AnswerFormedAt(sinkLog[r]) # {}

\* ------------------------------------------------ claims on the agent task
\* what applying a call to the files would do
Applied(fs, call) ==
    execute(fs, DefaultedArgs(_TOOL_NAME_ALIASES(call.name), call), TRUE)

\* a mutating action that would change a file
WouldChange(fs, call) ==
    /\ _TOOL_NAME_ALIASES(call.name) \in MUTATING_TOOL_NAMES
    /\ Applied(fs, call).ok /\ Applied(fs, call).fs # fs

\* a pending change that carries the operation and the path of an action, and
\* whose arguments do to the files what the action would do
Carries(change, fs, call) ==
    /\ change.operation = _TOOL_NAME_ALIASES(call.name)
    /\ change.path = Relative(Target(call))
    /\ Applied(fs, [change.apply_args EXCEPT !.name = change.operation]).fs
          = Applied(fs, call).fs

\* C18: when a task in preview mode (auto_apply = false) returns the result
\* of the fallback text protocol, every mutating action of the reply that
\* would change a file has exactly one pending change in the result that
\* carries its operation and path, and the files are as they were when the
\* task began.
C18_FallbackPreviewsPending ==
    (pin.stage = "task" /\ pin.site = "returned" /\ pin.result.via = "fallback"
     /\ ~pin.auto_apply)
    => /\ files = pin.before
       /\ \A k \in 1..Len(pin.calls) :
             WouldChange(pin.before, pin.calls[k])
             => Cardinality({i \in 1..Len(pin.result.pending_changes) :
                                Carries(pin.result.pending_changes[i], pin.before,
                                        pin.calls[k])}) = 1

\* C19: run_agent_task performs at most 8 loop steps.  A step with tool calls
\* only adds to the applied files and the pending changes; the 8th such step,
\* and no earlier one, ends the task with the timeout summary, whose result
\* carries every applied file (among them every file that differs from the
\* start of the task) and every pending change accumulated, the pending
\* changes registered as one set under the result's pending_id (and no set
\* and no id when there are none).
C19_StepBudget ==
    [][(pin.site = "loop" /\ pin'.step = pin.step + 1) =>
          /\ pin'.step <= AGENT_MAX_STEPS
          /\ IsPrefix(pin.pending_changes, pin'.pending_changes)
          /\ pin.applied_files \subseteq pin'.applied_files
          /\ (pin'.step = AGENT_MAX_STEPS) <=> (pin'.site = "returned")
          /\ pin'.step < AGENT_MAX_STEPS => pin'.site = "loop"
          /\ pin'.site = "returned" =>
                /\ pin'.result.present /\ pin'.result.via = "timeout"
                /\ pin'.result.tool_steps = pin'.total_tool_calls
                /\ pin'.result.applied_files = pin'.applied_files
                /\ pin'.result.pending_changes = pin'.pending_changes
                /\ \A l \in DOMAIN files' :
                      files'[l] # pin'.before[l] => Relative(l) \in pin'.result.applied_files
                /\ IF pin'.pending_changes = <<>>
                   THEN pin'.result.pending_id = 0 /\ pin'.pending = pin.pending
                   ELSE /\ pin'.result.pending_id # 0
                        /\ ~Has(pin.pending, pin'.result.pending_id)
                        /\ pin'.pending = Append(pin.pending,
                                                 [id |-> pin'.result.pending_id,
                                                  items |-> pin'.pending_changes])]_vars

\* a preview-mode task has run out of steps with several pending changes, a
\* failed call among its last tool calls
C19_Witness ==
    /\ pin.stage = "task" /\ pin.site = "returned" /\ pin.result.via = "timeout"
    /\ pin.step = AGENT_MAX_STEPS
    /\ Len(pin.result.pending_changes) >= 2
    /\ Len(pin.pending) = 1 /\ pin.pending[1].items = pin.result.pending_changes
    /\ \E i \in 1..Len(pin.tool_messages) : ~pin.tool_messages[i].ok

\* the error text a call is expected to fail with on the given files ("" when
\* it is expected to succeed), by the kind of failure
ExpectedError(fs, call, auto_apply) ==
    CASE call = NamelessCall -> "tool name is missing"
      [] call = UnknownCall -> "Unknown tool"
      [] call = NoPathCall -> "path is required"
      [] call = EscapingCall -> "Path escapes project root"
      [] call = MissingFileCall /\ ~is_file(fs, SubBPy) -> "File not found"
      [] call.name = "write_file" /\ StripText(call.path) = <<"a.py">> /\ is_file(fs, APy)
           /\ read_text(fs[APy].bytes) \notin {<<>>, StripText(call.content)}
           /\ ~call.allow_overwrite ->
             "Refusing full overwrite of existing non-empty file"
      [] call = NestedWriteCall /\ is_file(fs, SubDir) /\ auto_apply -> "tool execution failed"
      [] call = DeleteCall /\ ~is_file(fs, APy) -> "File not found"
      [] call = ReadCall /\ ~is_file(fs, APy) -> "File not found"
      [] OTHER -> ""

\* C20: a tool call that fails (nameless or unknown tool, missing argument,
\* sandbox violation, missing file, overwrite refusal, an OSError of the
\* executor) gets a tool message with ok = false and its error text, the
\* files stay as they were, and the loop goes on: every call of the step has
\* its tool message, the call after the failed one is executed, and the task
\* asks the model again unless the step budget is used up.  In the fallback
\* every named action of a reply is executed whatever the actions before it
\* did, and the fallback goes on or returns a result.
C20_ToolFailuresAreFedBack ==
    [][/\ (pin.site = "loop" /\ pin'.step = pin.step + 1) =>
             /\ Len(pin'.tool_messages) = Len(pin'.calls)
             /\ pin'.total_tool_calls = pin.total_tool_calls + Len(pin'.calls)
             /\ LET first == pin'.calls[1]
                    failed == ExpectedError(files, first, pin.auto_apply)
                IN  /\ pin'.tool_messages[1].ok = (failed = "")
                    /\ pin'.tool_messages[1].error = failed
                    /\ (failed # "" /\ Len(pin'.calls) = 1) => files' = files
                    /\ (failed # "" /\ Len(pin'.calls) = 2) =>
                          /\ pin'.tool_messages[2].error
                                = ExpectedError(files, pin'.calls[2], pin.auto_apply)
                          /\ pin'.tool_messages[2].ok = (pin'.tool_messages[2].error = "")
                          /\ files' = execute(files, pin'.calls[2], pin.auto_apply).fs
             /\ pin'.step < AGENT_MAX_STEPS => pin'.site = "loop"
             /\ pin'.step = AGENT_MAX_STEPS => pin'.site = "returned" /\ pin'.result.present
       /\ (pin.site = "fallback" /\ pin'.calls # <<>> /\ pin' # pin) =>
             /\ pin'.tool_results
                   = Cardinality({k \in 1..Len(pin'.calls) : pin'.calls[k].name # ""})
             /\ (Len(pin'.calls) = 2
                 /\ ExpectedError(files, pin'.calls[1], pin.auto_apply) # "") =>
                    files' = execute(files, pin'.calls[2], pin.auto_apply).fs
             /\ pin'.site \in {"fallback", "returned"}
             /\ pin'.site = "returned" => pin'.result.present]_vars

\* the loop has gone on after a step whose first call failed and whose second
\* call wrote a file
C20_Witness ==
    /\ pin.stage = "task" /\ pin.site = "loop" /\ pin.auto_apply
    /\ Len(pin.calls) = 2
    /\ ~pin.tool_messages[1].ok /\ pin.tool_messages[1].error = "tool execution failed"
    /\ pin.tool_messages[2].ok
    /\ files # pin.step_before

\* ------------------------------------------------ claims on persistence
\* C21: after every state-affecting operation of the runtime (create_session,
\* start_prompt, cancel_run, each status change of a run, the clearing of a
\* session's active run, the repair of a reload) the blob last saved to the
\* store equals the session and run tables in memory.
C21_SavedBlobEqualsTables ==
    persisted = [sessions |-> sessions, runs |-> runs]

\* the runs a pruning took out of the table it was given
PrunedRuns(p) == {r \in PruneRunIds : p.before[r].exists /\ ~p.runs[r].exists}

\* C22: when start_prompt prunes the run table, runs are removed only if the
\* table holds more runs than the retention cap, never more than the excess,
\* no removed run is a session's active run, and every removed run was
\* created before every run that is kept without being a session's active run.
C22_PruneOldestFirstNeverActive ==
    [][pin'.last = "start_prompt" =>
         LET p == pin'
             n == Cardinality({r \in PruneRunIds : p.before[r].exists})
             Active == {p.sessions[s].active_run_id : s \in PruneSessionIds} \ {NoRun}
         IN  /\ \A r \in PruneRunIds : p.runs[r] \in {p.before[r], EmptyRun}
             /\ n <= MaxRetained => PrunedRuns(p) = {}
             /\ n > MaxRetained => Cardinality(PrunedRuns(p)) <= n - MaxRetained
             /\ PrunedRuns(p) \cap Active = {}
             /\ \A r \in Active : p.runs[r].exists
             /\ \A r \in PrunedRuns(p), q \in PruneRunIds :
                   (p.runs[q].exists /\ q \notin Active) =>
                       p.before[r].created_at < p.before[q].created_at]_vars

\* a pruning has removed a run and kept an older one, which is a session's
\* active run
C22_Witness ==
    /\ pin.stage = "prune" /\ pin.last = "start_prompt"
    /\ \E r \in PrunedRuns(pin), s \in PruneSessionIds :
          /\ pin.sessions[s].active_run_id # NoRun
          /\ pin.runs[pin.sessions[s].active_run_id].exists
          /\ pin.runs[pin.sessions[s].active_run_id].created_at < pin.before[r].created_at
    /\ Cardinality({r \in PruneRunIds : pin.runs[r].exists}) > MaxRetained

\* ------------------------------------------------ claims on the event sink
\* the step the run's task or one of its stream event tasks takes when the
\* sink call it waits for returns
SinkReturned(r) ==
    \/ emit_started_resumed(r, "returns")
    \/ emit_verified_resumed(r, "returns")
    \/ final_emit_resumed(r, "returns")
    \/ \E suspends \in BOOLEAN : stream_delivered(r, suspends)
    \/ sink_resumed(r)

\* C23: a sink that raises on an event changes nothing of the run: the step in
\* which it raises leaves the sessions, the runs (status, result, error), the
\* run's task, the queue of events still to deliver and the saved blob exactly
\* as the same step does with a sink that returns, so the run goes on to the
\* same terminal status and result; no task is ended by what the sink raised,
\* and a completed run has been given run.completed.
C23_FailingSinkChangesNothing ==
    [][/\ \A r \in RunIds :
             (\E n \in 1..(Len(sinkLog'[r]) + 1) : <<r, n>> \in sinkRaised' \ sinkRaised)
                => SinkReturned(r)
       /\ \A r \in RunIds : task'[r] # "raised"
       /\ \A r \in RunIds :
             (task'[r] = "done" /\ runs'[r].exists /\ runs'[r].status = "completed") =>
                 \E i \in 1..Len(sinkLog'[r]) : sinkLog'[r][i].event = "run.completed"]_vars

\* the sink raised on run.started and on a later event of the loop, and the
\* run has completed with its result and was given run.verified and
\* run.completed afterwards
C23_Witness ==
    \E r \in RunIds :
       /\ runs[r].exists /\ runs[r].status = "completed" /\ runs[r].result.present
       /\ task[r] = "done"
       /\ <<r, 1>> \in sinkRaised /\ sinkLog[r][1].event = "run.started"
       /\ \E n \in 2..Len(sinkLog[r]) :
             /\ <<r, n>> \in sinkRaised
             /\ sinkLog[r][n].event \notin {"run.started", "run.verified", "run.completed"}
             /\ \E i, j \in (n + 1)..Len(sinkLog[r]) :
                   /\ i < j
                   /\ sinkLog[r][i].event = "run.verified"
                   /\ sinkLog[r][j].event = "run.completed"

\* ------------------------------------------------ claims on the sessions
\* the value a string field of the session must have after an update called
\* with the parameter: kept when the key is omitted, cleared by null and by the
\* empty string, set to the stripped text otherwise (a string of blanks only
\* is left open)
FieldAfterUpdate(old, param) ==
    IF param = Missing THEN {old}
    ELSE IF param \in {PyNone, Str(<<>>)} THEN {PyNone}
    ELSE IF StripText(param.v) = <<>> THEN {old, PyNone}
    ELSE {Str(StripText(param.v))}

\* C24: session.update changes only the fields supplied: an omitted model_id,
\* chat_id or metadata keeps its value, an explicitly empty one (null, "", {})
\* clears it, a supplied one replaces it; active_run_id and the runs are left
\* as they were, and a call refused for its parameters changes nothing.
C24_UpdateChangesOnlySupplied ==
    [][(pin'.op = "session.update" /\ pin' # pin) =>
         LET old == pin.session
             new == pin'.session
             params == pin'.params
         IN  /\ new.active_run_id = old.active_run_id
             /\ pin'.runs = pin.runs
             /\ pin'.out = "invalid_params" => new = old
             /\ pin'.out = "ok" =>
                   /\ new.model_id \in FieldAfterUpdate(old.model_id, params.model_id)
                   /\ new.chat_id \in FieldAfterUpdate(old.chat_id, params.chat_id)
                   /\ new.metadata =
                         IF params.metadata = Missing THEN old.metadata
                         ELSE IF params.metadata = PyNone THEN {}
                         ELSE _normalize_metadata(params.metadata)]_vars

\* ------------------------------------------------ claims on wait_run
\* C25: a wait_run that times out raises the timeout error and changes
\* nothing of the run: its task is where it was, no cancellation is requested
\* by the timeout, status, result and session are untouched; a run whose wait
\* has timed out is cancelled only if cancel_run was accepted for it.
C25_WaitTimeoutLeavesRun ==
    [][/\ (resp'.op = "wait_run" /\ resp'.out = "raise_timeout" /\ waiter.state = "waiting") =>
             /\ UNCHANGED <<sessions, runs, task, must_cancel, loc, streamQ, streamBusy,
                            sinkLog, files, toolLog, persisted, cancel_accepted>>
             /\ task'[resp'.run] \in Live
             /\ waiter' = IdleWaiter
       /\ \A r \in pin' :
             (runs'[r].status = "cancelled" \/ must_cancel'[r]) => r \in cancel_accepted']_vars

\* the wait for a run has timed out while the run was running, nobody has
\* cancelled the run, and it has completed with its result afterwards
C25_Witness ==
    \E r \in RunIds :
       /\ r \in pin
       /\ r \notin cancel_accepted
       /\ runs[r].status = "completed" /\ runs[r].result.present
       /\ task[r] = "done"

\* ------------------------------------------------ claims on move_file
MoveSource == _resolve_path(pin.call.source_path).path
MoveDestination == _resolve_path(pin.call.destination_path).path

\* an applied move whose source is a file and whose destination is another
\* location of the project that a file can be moved to
MoveCase ==
    /\ pin.stage = "executed"
    /\ pin.auto_apply
    /\ _resolve_path(pin.call.source_path).ok
    /\ _resolve_path(pin.call.destination_path).ok
    /\ is_file(pin.before, MoveSource)
    /\ MoveSource # MoveDestination
    /\ ~(exists(pin.before, MoveDestination) /\ ~is_file(pin.before, MoveDestination))
    /\ \A p \in Parents(MoveDestination) : ~is_file(pin.before, p)

C26_WitnessRefused ==
    /\ MoveCase
    /\ is_file(pin.before, MoveDestination)
    /\ ~pin.call.allow_overwrite
    /\ pin.res.raised = "WorkspaceToolError"

\* ------------------------------------------------ claims on code blocks
\* the tagged blocks of the bridged text whose path names a location of the
\* project where nothing exists yet and whose content is not blank
NewFileBlocks ==
    LET blocks == _extract_code_blocks(pin.calls)
    IN  {i \in 1..Len(blocks) :
            /\ _resolve_path(blocks[i].path).ok
            /\ ~exists(pin.before, _resolve_path(blocks[i].path).path)
            /\ _required_str(blocks[i].content) # <<>>
            /\ \A j \in 1..Len(blocks) : j # i => blocks[j].path # blocks[i].path}

PendingFor(path) ==
    {k \in 1..Len(pin.result.pending_changes) : pin.result.pending_changes[k].path = path}

StepOver == pin.stage = "request" /\ pin.site \in {"failed", "fallback", "returned"}

\* C28: when the streaming request of a step is rejected with 400/404/422, on
\* its first attempt or on the attempt after a re-login, the step is asked
\* again exactly once without streaming before the task fails or falls back
C28_RejectedStreamRetriedOnce ==
    (StepOver /\ pin.stream_rejected) => pin.non_stream_requests = 1

\* what the claim counts: no tool call of the task has succeeded, or, for a
\* reply without tool calls, the task needs file changes and none occurred
NothingSucceeded == pin.succeeded = 0
NothingChanged == pin.requires_changes /\ pin.applied_files = {} /\ pin.pending_changes = <<>>

\* C29: the loop turns to the fallback text protocol, on a payload rejected by
\* the streaming and by the non-streaming request or on a reply without tool
\* calls, exactly when no tool call has succeeded so far or, for a reply without
\* tool calls, when the task needs file changes and none occurred; a call that
\* was attempted and failed does not count as succeeded
C29_FallbackIffNothingSucceeded ==
    /\ (StepOver /\ pin.rejected_twice) => (pin.site = "fallback" <=> NothingSucceeded)
    /\ (StepOver /\ pin.reply = "no_tool_calls") =>
          (pin.site = "fallback" <=> (NothingSucceeded \/ NothingChanged))

\* ------------------------------------------------ claims on the repair prompts
\* a round of the fallback ends with a repair prompt: the loop goes round again
RepairPrompted ==
    /\ pin.stage = "task" /\ pin.site = "fallback"
    /\ pin'.stage = "task" /\ pin'.site = "fallback"
    /\ pin'.attempt = pin.attempt + 1

\* C30: in the fallback protocol a repair prompt is issued only when the task
\* requires file changes and no file-changing effect has been produced; at most
\* 6 repair prompts are sent in one invocation, and none is sent once an attempt
\* has produced an applied file or a pending change
C30_RepairOnlyForMissingChanges ==
    [][RepairPrompted =>
          /\ pin.requires_changes
          /\ pin'.cum_applied = {} /\ pin'.cum_pending = <<>>
          /\ files' = files
          /\ pin'.attempt <= FALLBACK_REPAIR_ATTEMPTS]_vars

\* ------------------------------------------------ claims on the fallback result
\* the tool calls a round of the fallback executed: the named actions of its reply
ExecutedInRound ==
    Cardinality({i \in 1..Len(pin'.calls) : _TOOL_NAME_ALIASES(pin'.calls[i].name) # ""})

NoDuplicates(seq) == \A i, j \in 1..Len(seq) : seq[i] = seq[j] => i = j

\* C31: the fallback result accumulates over all attempts: every tool call
\* executed in a round is added to the reported tool results and counted in
\* tool_steps (up to the history of 48), every applied file stays reported, and
\* pending changes with the same operation, path and apply_args appear once
C31_FallbackAccumulates ==
    [][(pin.stage = "task" /\ pin.site = "fallback" /\ pin' # pin) =>
          /\ pin'.cum_results = Min(FALLBACK_RESULT_HISTORY, pin.cum_results + ExecutedInRound)
          /\ pin.cum_applied \subseteq pin'.cum_applied
          /\ NoDuplicates(pin'.cum_pending)
          /\ (pin'.site = "returned" /\ pin'.result.via = "fallback") =>
                /\ pin'.result.tool_steps = pin'.cum_results
                /\ pin'.result.applied_files = pin'.cum_applied
                /\ pin'.result.pending_changes = pin'.cum_pending]_vars

\* ------------------------------------------------ claims on the reply parser
\* the three strategies on their own: the text decoded as JSON, the first
\* fenced block that gives actions, the call-like lines
DirectJson(text) == CandidateActions(text).actions
FencedJson(text) == FirstNonEmpty(FencedBodies(text)).actions
CallLike(text) == _parse_function_calls_from_text(text)

\* C32: the parser returns the action list of the first of direct JSON, fenced
\* JSON and call-like text that yields a non-empty list, and the empty list only
\* if none of them yields an action
C32_FirstNonEmptyStrategyWins ==
    pin.stage = "parsed" =>
        pin.actions = IF DirectJson(pin.text) # <<>> THEN DirectJson(pin.text)
                      ELSE IF FencedJson(pin.text) # <<>> THEN FencedJson(pin.text)
                      ELSE CallLike(pin.text)

\* ------------------------------------------------ claims on the event mapping
\* the run.progress event a mapped loop event was relayed as
Progress == pin.events[1]

\* C33 as stated: every loop event is relayed as a run.progress event whose
\* phase is act exactly for tool_start and tool_result, final exactly for
\* assistant_delta and plan for every other type, whatever the event's text
C33_PhaseByTypeAlone ==
    pin.stage = "mapped" =>
        /\ Len(pin.events) >= 1
        /\ Progress.event = "run.progress"
        /\ Progress.phase = "act" <=> pin.source_event.type \in {"tool_start", "tool_result"}
        /\ Progress.phase = "final" <=> pin.source_event.type = "assistant_delta"
        /\ Progress.phase \in {"act", "final", "plan"}

\* C33, amended: the phase is act for tool_start and tool_result and for a
\* status whose text contains "vypolnyayu", final for assistant_delta and for a
\* status whose text contains "otvet sformirovan", and plan for every other event
C33_PhaseByTypeAndStatusText ==
    pin.stage = "mapped" =>
        LET e == pin.source_event
            act == \/ e.type \in {"tool_start", "tool_result"}
                   \/ (e.type = "status" /\ HasVypolnyayu(e.text))
            final == \/ e.type = "assistant_delta"
                     \/ (e.type = "status" /\ ~HasVypolnyayu(e.text)
                         /\ HasOtvetSformirovan(e.text))
        IN  /\ Len(pin.events) >= 1
            /\ Progress.event = "run.progress"
            /\ Progress.phase = IF act THEN "act" ELSE IF final THEN "final" ELSE "plan"

\* a status that announces a tool was relayed with phase act
C33_Witness ==
    /\ pin.stage = "mapped"
    /\ pin.source_event.type = "status"
    /\ HasVypolnyayu(pin.source_event.text)
    /\ Progress.phase = "act"

\* ------------------------------------------------ claims on the diff
\* a preview of the call produced a pending change: _extract_pending_change
\* takes a result that is previewed and changed
PendingChangeProduced ==
    /\ pin.stage = "executed"
    /\ ~pin.auto_apply
    /\ pin.res.ok /\ pin.res.previewed /\ pin.res.changed
    /\ pin.call.name \in MUTATING_TOOL_NAMES

\* C34: every pending change produced by the preview of write_file,
\* replace_in_file or delete_file carries a non-empty unified diff, the
\* deletion of an existing empty file included
C34_PendingChangeHasDiff ==
    PendingChangeProduced => preview_diff(pin.before, pin.call) # <<>>

\* ------------------------------------------------ claims on progress
\* the run has a terminal status and its session no longer points to it
RunOver(r) ==
    /\ runs[r].status \in Terminal
    /\ sessions[runs[r].session_id].active_run_id # r

\* C35: every run accepted by start_prompt eventually reaches a terminal
\* status and its session's active_run_id is eventually cleared, when every
\* call the run awaits returns, whatever cancel_run, wait_run and start_prompt
\* calls are made meanwhile
C35_EveryRunEnds ==
    \A r \in RunIds : runs[r].exists ~> RunOver(r)

\* ------------------------------------------- claims on result and error
\* C36: in every reachable state a run has a result exactly when its status
\* is completed, and an error only when its status is failed or interrupted
C36_ResultIffCompleted ==
    \A r \in RunIds :
        runs[r].exists =>
            /\ runs[r].result.present <=> runs[r].status = "completed"
            /\ runs[r].error # "none" => runs[r].status \in {"failed", "interrupted"}

\* ------------------------------------------- claims on preview and apply
\* C37: applying the change set of a task run in preview mode leaves the
\* workspace as running the same tool calls in apply mode from the same
\* workspace leaves it, calls that touch the same file included
C37_ApplyEqualsAutoApply ==
    (pin.stage = "equiv" /\ pin.phase = "applied") => files = AutoApply(pin.start, pin.calls)

\* ------------------------------------------------ claims on ownership
\* the step is a cancel_run call that requested the cancellation of a run
CancelRequested ==
    /\ resp'.op = "cancel_run" /\ resp'.out = "cancelled"
    /\ must_cancel'[resp'.run]

\* C38: cancel_run(session_id, run_id) cancels a run only if the run belongs
\* to the named session; a run of another session is never cancelled through it
C38_CancelOnlyOwnRuns ==
    [][CancelRequested => runs[resp'.run].session_id = resp'.session_id]_vars

\* ------------------------------------------- claims on the order of runs
\* a later run of the session of run r has delivered its run.started event
SuccessorStarted(r) ==
    \E q \in RunIds :
        /\ runs[q].exists /\ runs[r].exists
        /\ runs[q].session_id = runs[r].session_id
        /\ runs[q].created_at > runs[r].created_at
        /\ sinkLog[q] # <<>>

\* C39: for one session, every event of a run, its terminal run.completed,
\* run.cancelled or run.failed event included, is delivered before the
\* run.started event of the next run of the session: once the next run has
\* delivered run.started, the sink receives no further event of the run
C39_EventsBeforeNextRunStarts ==
    [][\A r \in RunIds : SuccessorStarted(r) => sinkLog'[r] = sinkLog[r]]_vars

\* ------------------------------------------- claims on the size of the table
\* the runs of the table, the active runs, and the oldest runs of the table
\* start_prompt pruned that were beyond the retention cap
TableRuns(R) == {r \in PruneRunIds : R[r].exists}
ActiveRuns(p) == {p.sessions[s].active_run_id : s \in PruneSessionIds} \ {NoRun}
BeyondCap(p) ==
    LET existing == TableRuns(p.before)
        Older(r) == Cardinality({q \in existing : p.before[q].created_at < p.before[r].created_at})
    IN  {r \in existing : Older(r) < Cardinality(existing) - MaxRetained}

\* C40 as stated: immediately after any start_prompt returns, the run table
\* holds at most the retention cap of runs (256), whichever of the older runs
\* are still active
C40_TableAtMostCap ==
    (pin.stage = "prune" /\ pin.last = "start_prompt") =>
        Cardinality(TableRuns(pin.runs)) <= MaxRetained

\* C40 as the code has it: after start_prompt the table holds at most the cap
\* of runs that are not a session's active run; it holds the runs within the
\* cap and the active runs beyond it, so it exceeds the cap exactly when an
\* active run is among the oldest runs beyond the cap
C40_TableAtMostCapPlusActive ==
    (pin.stage = "prune" /\ pin.last = "start_prompt") =>
        /\ Cardinality(TableRuns(pin.runs) \ ActiveRuns(pin)) <= MaxRetained
        /\ TableRuns(pin.runs) =
              (TableRuns(pin.before) \ BeyondCap(pin)) \cup (BeyondCap(pin) \cap ActiveRuns(pin))
        /\ Cardinality(TableRuns(pin.runs)) > MaxRetained
              <=> BeyondCap(pin) \cap ActiveRuns(pin) # {}

\* start_prompt has left the table above the cap without removing any run:
\* the only run beyond the cap is a session's active run
C40_Witness ==
    /\ pin.stage = "prune" /\ pin.last = "start_prompt"
    /\ Cardinality(TableRuns(pin.runs)) = MaxRetained + 1
    /\ BeyondCap(pin) # {} /\ BeyondCap(pin) \subseteq ActiveRuns(pin)
    /\ TableRuns(pin.runs) = TableRuns(pin.before)

====
